---- MODULE Spec2Model ----
(***************************************************************************)
(* Inventra: the stock ledger (stockIn / stockOut), the product            *)
(* controller (createProduct / updateProduct), the Product pre-save status *)
(* hook, the notification relay (restock and reorder fan-out) and the      *)
(* auditor (createNewAudit / scheduleAudit / completeAudit), as a state    *)
(* machine over the MongoDB collections.                                   *)
(*                                                                         *)
(* Every handler is an async function: each awaited database operation is  *)
(* one atomic step, and the steps of different requests interleave.  The   *)
(* synchronous code between two awaits is folded into the step of the      *)
(* database operation that precedes it.                                    *)
(***************************************************************************)
EXTENDS Integers, Sequences, FiniteSets, TLC

(***************************************************************************)
(* Bounds of the model                                                     *)
(***************************************************************************)
MaxStock == 2          \* largest stock value a request may produce
MaxQty == 2            \* largest quantity a request carries
MaxTx == 2             \* stock writes admitted in one behaviour
MaxAudits == 2         \* Audit records created in one behaviour
MaxNotifications == 2  \* Notification rows after which no reorder request is admitted

(***************************************************************************)
(* Program constants                                                       *)
(***************************************************************************)
DefaultStock == 0              \* Product.js: stock.default
DefaultThreshold == 10         \* Product.js: lowStockThreshold.default
MinStock == 0                  \* Product.js: stock.min
MinQuantity == 1               \* Transaction.js: quantity.min
DefaultPrice == 0              \* Product.js: price.default
MinPrice == 0                  \* Product.js: price.min

Skus == {"X1"}
\* Document ids: one per product that can exist, and one that is never handed out.
ProductIds == 1..(Cardinality(Skus) + 1)
\* Two requests in flight: the handlers of one interleave with those of the other.
Reqs == {1, 2}
Clerks == {"c1"}
Manager == "m1"
UserIds == Clerks \cup {Manager}
\* The identities of the tokens: the clerk who asks for a reorder, the admin.
Clerk == "c1"
Admin == "admin-hardcoded"
\* const validRoles = ['admin', 'manager', 'clerk', 'auditor']
ValidRoles == {"admin", "manager", "clerk", "auditor"}

\* An optional request field: <<>> when the JSON body lacks it, <<v>> otherwise.
Opt(S) == {<<>>} \cup {<<v>> : v \in S}
Has(o) == o # <<>>
Val(o) == o[1]

StockInputs == {0 - 1, 0, MaxStock}
UpdateStocks == {0 - 1, MaxStock}
QtyInputs == (0 - 1)..MaxQty
ThresholdInputs == {1}
GoodPrices == {<<1>>}

VARIABLES
    products,       \* Product collection: _id -> document
    transactions,   \* Transaction collection, in insertion order
    notifications,  \* Notification collection, in insertion order
    users,          \* User collection: _id -> role
    reqs,           \* the in-flight HTTP requests: locals and position
    response,       \* the response sent by the last step, if it sent one
    stockWrites,    \* history: per product, stock writes persisted by stockIn/stockOut
    audits          \* Audit collection, in insertion order: _id = position

vars == <<products, transactions, notifications, users, reqs, response, stockWrites, audits>>

(***************************************************************************)
(* Requests and responses                                                  *)
(***************************************************************************)
\* A response, with the request body it answers (stockIn / stockOut only).
NoResponse ==
    [op |-> "", code |-> 0, error |-> "", productId |-> <<>>, quantity |-> <<>>,
     previousStock |-> <<>>, newStock |-> <<>>, available |-> <<>>, requested |-> <<>>,
     notificationsSent |-> <<>>, auditId |-> <<>>, totalDiscrepancies |-> <<>>,
     auditResults |-> <<>>, title |-> <<>>, date |-> <<>>,
     user |-> "", id |-> <<>>, data |-> <<>>, count |-> <<>>, status |-> <<>>,
     type |-> <<>>]

Reply(op, code, error) ==
    [NoResponse EXCEPT !.op = op, !.code = code, !.error = error]

StockError(op, productId, quantity, code, error) ==
    [Reply(op, code, error) EXCEPT !.productId = productId, !.quantity = quantity]

NoDoc == [stock |-> 0, lowStockThreshold |-> 0, status |-> ""]

IdleReq ==
    [pc |-> "idle", op |-> "", productId |-> 0, quantity |-> 0,
     sku |-> "", doc |-> NoDoc, loaded |-> NoDoc, previousStock |-> 0,
     newStock |-> 0, pending |-> {}, price |-> <<>>, found |-> {}, sent |-> {},
     answered |-> FALSE, auditId |-> 0, auditResults |-> <<>>,
     user |-> "", id |-> 0, data |-> <<>>, query |-> <<>>]

Free(r) == reqs[r].pc = "idle"

\* Request slots are anonymous: a new request takes the lowest free one.
Admit(r) == Free(r) /\ \A o \in Reqs : o < r => ~Free(o)

\* The handler returns: its locals go away.
Finish(r, res) ==
    /\ reqs' = [reqs EXCEPT ![r] = IdleReq]
    /\ response' = res

(***************************************************************************)
(* models/Product.js, models/Transaction.js                                *)
(***************************************************************************)
\* The hook with the threshold comparison made strict.
PreSaveStrict(doc) ==
    [doc EXCEPT !.status =
        IF doc.stock = 0 THEN "out-of-stock"
        ELSE IF doc.stock < doc.lowStockThreshold THEN "low-stock"
        ELSE "in-stock"]

\* productSchema.pre('save'): derive status from stock and threshold.
PreSave(doc) ==
    [doc EXCEPT !.status =
        IF doc.stock = 0 THEN "out-of-stock"
        ELSE IF doc.stock <= doc.lowStockThreshold THEN "low-stock"
        ELSE "in-stock"]

\* The schema without its min validator on stock.
StockUnchecked(stock) == TRUE

\* stock: { min: [0, 'Stock cannot be negative'] }
StockValid(stock) == stock >= MinStock

\* price: { min: [0, 'Price cannot be negative'] }
PriceValid(price) == price >= MinPrice

\* quantity: { min: [1, 'Quantity must be at least 1'] }
QuantityValid(quantity) == quantity >= MinQuantity

\* A save that applies the change of stock as an increment to the stored value.
SaveInc(row, loaded, doc) ==
    [row EXCEPT !.stock = @ + (doc.stock - loaded.stock),
                !.status = IF doc.status # loaded.status THEN doc.status ELSE @]

\* document.save() of a loaded document sends a $set of the modified paths only:
\* stock when the handler changed it, status when the hook changed it.
SaveSet(row, loaded, doc) ==
    [row EXCEPT !.stock = IF doc.stock # loaded.stock THEN doc.stock ELSE @,
                !.status = IF doc.status # loaded.status THEN doc.status ELSE @]

DocOf(row) ==
    [stock |-> row.stock, lowStockThreshold |-> row.lowStockThreshold,
     status |-> row.status]

Init ==
    /\ products = << >>
    /\ transactions = << >>
    /\ notifications = << >>
    /\ users = [u \in UserIds |-> IF u \in Clerks THEN "clerk" ELSE "manager"]
    /\ reqs = [r \in Reqs |-> IdleReq]
    /\ response = NoResponse
    /\ stockWrites = [p \in ProductIds |-> 0]
    /\ audits = << >>

(***************************************************************************)
(* controllers/product.controller.js                                       *)
(***************************************************************************)
\* The strings of the model that begin or end with blanks, and what is left
\* of them without.
Blanked == (" " :> "") @@ (" X1" :> "X1")

\* sku: { trim: true }, title: { trim: true }
Trim(text) == IF text \in DOMAIN Blanked THEN Blanked[text] ELSE text

\* The value a query on sku is run with: the library casts it with the
\* setters of the schema (trim) or leaves it as given, depending on its version.
QueryKeys(sku) == {sku, Trim(sku)}

\* createProduct, first await: Product.findOne({ sku }).
CreateProductBegin(r, sku, stock, threshold, price) ==
    /\ Admit(r)
    /\ \E key \in QueryKeys(sku) :
       IF \E p \in DOMAIN products : products[p].sku = key
       THEN Finish(r, Reply("createProduct", 400, "DuplicateSku"))
       ELSE /\ reqs' = [reqs EXCEPT ![r] =
                [IdleReq EXCEPT !.pc = "insert", !.op = "createProduct",
                    !.sku = Trim(sku),
                    !.price = IF Has(price) THEN price ELSE <<DefaultPrice>>,
                    !.doc = [stock |-> IF Has(stock) THEN Val(stock) ELSE DefaultStock,
                             lowStockThreshold |-> IF Has(threshold) THEN Val(threshold)
                                                   ELSE DefaultThreshold,
                             status |-> "in-stock"]]]
            /\ response' = NoResponse
    /\ UNCHANGED <<products, transactions, notifications, users, stockWrites, audits>>

\* An insert into a collection without the unique index on sku.
CreateProductInsertNoIndex(r) ==
    /\ reqs[r].pc = "insert"
    /\ LET doc == reqs[r].doc
           free == ProductIds \ DOMAIN products
       IN  IF \/ ~StockValid(doc.stock)
              \/ ~PriceValid(Val(reqs[r].price))
              \/ free = {}
           THEN /\ Finish(r, Reply("createProduct", 500, "ServerError"))
                /\ UNCHANGED products
           ELSE LET id == CHOOSE p \in free : \A o \in free : p <= o
                    saved == PreSave(doc)
                IN  /\ products' = products @@
                            (id :> [sku |-> reqs[r].sku, stock |-> saved.stock,
                                    lowStockThreshold |-> saved.lowStockThreshold,
                                    status |-> saved.status,
                                    price |-> reqs[r].price])
                    /\ Finish(r, Reply("createProduct", 201, ""))
    /\ UNCHANGED <<transactions, notifications, users, stockWrites, audits>>

\* createProduct, second await: Product.create(productData): validation, the
\* pre-save hook, then the insert under the unique index on sku.
CreateProductInsert(r) ==
    /\ reqs[r].pc = "insert"
    /\ LET doc == reqs[r].doc
           free == ProductIds \ DOMAIN products
       IN  IF \/ ~StockValid(doc.stock)
              \/ ~PriceValid(Val(reqs[r].price))
              \/ \E p \in DOMAIN products : products[p].sku = reqs[r].sku
              \/ free = {}
           THEN /\ Finish(r, Reply("createProduct", 500, "ServerError"))
                /\ UNCHANGED products
           ELSE LET id == CHOOSE p \in free : \A o \in free : p <= o
                    saved == PreSave(doc)
                IN  /\ products' = products @@
                            (id :> [sku |-> reqs[r].sku, stock |-> saved.stock,
                                    lowStockThreshold |-> saved.lowStockThreshold,
                                    status |-> saved.status,
                                    price |-> reqs[r].price])
                    /\ Finish(r, Reply("createProduct", 201, ""))
    /\ UNCHANGED <<transactions, notifications, users, stockWrites, audits>>

\* Update validators of findByIdAndUpdate(..., { runValidators: true }).
UpdateValid(stock, price) ==
    /\ Has(stock) => StockValid(Val(stock))
    /\ Has(price) => PriceValid(Val(price))

\* updateProduct: one findByIdAndUpdate; fields absent from the body are not set.
\* No save middleware runs on this path.
UpdateProduct(r, id, stock, threshold, price) ==
    /\ Admit(r)
    /\ IF ~UpdateValid(stock, price)
       THEN /\ Finish(r, Reply("updateProduct", 500, "ServerError"))
            /\ UNCHANGED products
       ELSE IF id \notin DOMAIN products
       THEN /\ Finish(r, Reply("updateProduct", 404, "NotFound"))
            /\ UNCHANGED products
       ELSE /\ products' = [products EXCEPT
                    ![id].stock = IF Has(stock) THEN Val(stock) ELSE @,
                    ![id].lowStockThreshold = IF Has(threshold) THEN Val(threshold) ELSE @,
                    ![id].price = IF Has(price) THEN price ELSE @]
            /\ Finish(r, Reply("updateProduct", 200, ""))
    /\ UNCHANGED <<transactions, notifications, users, stockWrites, audits>>

\* deleteProduct: one Product.findByIdAndDelete; nothing else is removed.
DeleteProduct(r, id) ==
    /\ Admit(r)
    /\ IF id \notin DOMAIN products
       THEN /\ Finish(r, [Reply("deleteProduct", 404, "NotFound") EXCEPT !.id = <<id>>])
            /\ UNCHANGED products
       ELSE /\ products' = [p \in DOMAIN products \ {id} |-> products[p]]
            /\ Finish(r, [Reply("deleteProduct", 200, "") EXCEPT !.id = <<id>>])
    /\ UNCHANGED <<transactions, notifications, users, stockWrites, audits>>

(***************************************************************************)
(* controllers/manager.controller.js                                       *)
(***************************************************************************)
\* Stock writes persisted or still to come: the admission bound of the model.
Committed ==
    LET RECURSIVE Sum(_)
        Sum(S) == IF S = {} THEN 0
                  ELSE LET p == CHOOSE x \in S : TRUE IN stockWrites[p] + Sum(S \ {p})
    IN  Sum(ProductIds) + Cardinality({r \in Reqs : reqs[r].pc = "save"})

\* The check of the body without its sign test.
BadStockRequestNoSign(productId, quantity) ==
    \/ ~Has(productId)
    \/ ~Has(quantity)
    \/ Val(quantity) = 0

\* !productId || !quantity || quantity <= 0
BadStockRequest(productId, quantity) ==
    \/ ~Has(productId)
    \/ ~Has(quantity)
    \/ Val(quantity) = 0
    \/ Val(quantity) <= 0

\* stockIn computing its new stock the way stockOut does.
NewStockSubtract(op, previousStock, quantity) == previousStock - quantity

\* The two computations exchanged.
NewStockSwapped(op, previousStock, quantity) ==
    IF op = "stockIn" THEN previousStock - quantity ELSE previousStock + quantity

\* const newStock = previousStock + quantity   /   previousStock - quantity
NewStock(op, previousStock, quantity) ==
    IF op = "stockIn" THEN previousStock + quantity ELSE previousStock - quantity

\* The stock check of stockOut made non-strict.
InsufficientOrEqual(previousStock, quantity) == previousStock <= quantity

\* if (previousStock < quantity)
Insufficient(previousStock, quantity) == previousStock < quantity

\* stockIn / stockOut up to the call of product.save(): the validation of the
\* body, Product.findById, the stock check of stockOut, and the assignment of
\* product.stock in memory.
StockBegin(r, op, productId, quantity) ==
    /\ Admit(r)
    /\ UNCHANGED <<products, transactions, notifications, users, stockWrites, audits>>
    /\ IF BadStockRequest(productId, quantity)
       THEN Finish(r, StockError(op, productId, quantity, 400, "ValidationError"))
       ELSE IF Val(productId) \notin DOMAIN products
       THEN Finish(r, StockError(op, productId, quantity, 404, "NotFound"))
       ELSE LET row == products[Val(productId)]
                previousStock == row.stock
                newStock == NewStock(op, previousStock, Val(quantity))
            IN  IF op = "stockOut" /\ Insufficient(previousStock, Val(quantity))
                THEN Finish(r, [StockError(op, productId, quantity, 400, "InsufficientStock")
                                    EXCEPT !.available = <<previousStock>>,
                                           !.requested = quantity])
                ELSE /\ newStock <= MaxStock
                     /\ Committed < MaxTx
                     /\ reqs' = [reqs EXCEPT ![r] =
                            [IdleReq EXCEPT !.pc = "save", !.op = op,
                                !.productId = Val(productId), !.quantity = Val(quantity),
                                !.loaded = DocOf(row),
                                !.doc = [DocOf(row) EXCEPT !.stock = newStock],
                                !.previousStock = previousStock,
                                !.newStock = newStock]]
                     /\ response' = NoResponse

\* catch (error): res.status(500)
StockFailure(r) ==
    StockError(reqs[r].op, <<reqs[r].productId>>, <<reqs[r].quantity>>, 500, "ServerError")

\* res.status(200): the answer of a stock request that went through.
StockReply(r) ==
    [StockError(reqs[r].op, <<reqs[r].productId>>, <<reqs[r].quantity>>, 200, "")
        EXCEPT !.previousStock = <<reqs[r].previousStock>>,
               !.newStock = <<reqs[r].newStock>>]

\* A save that resolves without the update having reached the collection.
ProductSaveNoWrite(r) ==
    /\ reqs[r].pc = "save"
    /\ reqs' = [reqs EXCEPT ![r].pc = "tx", ![r].doc = PreSave(reqs[r].doc)]
    /\ response' = NoResponse
    /\ UNCHANGED <<products, transactions, notifications, users, stockWrites, audits>>

\* await product.save(): validation, the pre-save hook, then the update,
\* which throws DocumentNotFoundError when the document is gone.
ProductSave(r) ==
    /\ reqs[r].pc = "save"
    /\ UNCHANGED <<transactions, notifications, users, audits>>
    /\ IF ~StockValid(reqs[r].doc.stock) \/ reqs[r].productId \notin DOMAIN products
       THEN /\ Finish(r, StockFailure(r))
            /\ UNCHANGED <<products, stockWrites>>
       ELSE LET saved == PreSave(reqs[r].doc)
                id == reqs[r].productId
            IN  /\ products' = [products EXCEPT
                        ![id] = SaveSet(@, reqs[r].loaded, saved)]
                /\ stockWrites' = [stockWrites EXCEPT ![id] = @ + 1]
                /\ reqs' = [reqs EXCEPT ![r].pc = "tx", ![r].doc = saved]
                /\ response' = NoResponse

\* await Transaction.create({...}); stockOut answers right after it.
TransactionCreate(r) ==
    /\ reqs[r].pc = "tx"
    /\ UNCHANGED <<products, notifications, users, stockWrites, audits>>
    /\ IF ~QuantityValid(reqs[r].quantity)
       THEN /\ Finish(r, StockFailure(r))
            /\ UNCHANGED transactions
       ELSE /\ transactions' = Append(transactions,
                    [product |-> reqs[r].productId,
                     type |-> IF reqs[r].op = "stockIn" THEN "in" ELSE "out",
                     quantity |-> reqs[r].quantity,
                     previousStock |-> reqs[r].previousStock,
                     newStock |-> reqs[r].newStock,
                     status |-> "completed"])
            /\ IF reqs[r].op = "stockIn"
               THEN /\ reqs' = [reqs EXCEPT ![r].pc = "clerks"]
                    /\ response' = NoResponse
               ELSE Finish(r, StockReply(r))

\* Transaction.create rejects: the database fails, or the document fails its
\* validation (a quantity between 0 and 1 passes the check of the handler
\* and not the min of the schema).  The catch block answers 500.
TransactionCreateFails(r) ==
    /\ reqs[r].pc = "tx"
    /\ Finish(r, StockFailure(r))
    /\ UNCHANGED <<products, transactions, notifications, users, stockWrites, audits>>

\* A query that returns every user, whatever the role.
UsersWithAnyRole(role) == DOMAIN users

\* User.find({ role })
UsersWithRole(role) == {u \in DOMAIN users : users[u] = role}

\* stockIn: await User.find({ role: 'clerk' }), then the sends are started.
FindClerks(r) ==
    /\ reqs[r].pc = "clerks"
    /\ LET clerks == UsersWithRole("clerk")
       IN  IF clerks = {}
           THEN Finish(r, StockReply(r))
           ELSE /\ reqs' = [reqs EXCEPT ![r].pc = "notify", ![r].pending = clerks,
                                        ![r].found = clerks]
                /\ response' = NoResponse
    /\ UNCHANGED <<products, transactions, notifications, users, stockWrites, audits>>

\* res.status(200) of requestReorder: notificationsSent = notifications.length,
\* the results Promise.all resolved with.
ReorderReply(r, sent) ==
    [StockError("requestReorder", <<reqs[r].productId>>, <<>>, 200, "")
        EXCEPT !.notificationsSent = <<Cardinality(sent)>>]

\* The answer of the handler whose fan-out resolved.
FanOutReply(r, sent) ==
    IF reqs[r].op = "stockIn" THEN StockReply(r) ELSE ReorderReply(r, sent)

\* The Notification document of sendNotification(recipient, message, type, sender, productId).
NotificationRow(r, recipient) ==
    [recipient |-> recipient,
     sender |-> IF reqs[r].op = "stockIn" THEN Manager ELSE Clerk,
     type |-> IF reqs[r].op = "stockIn" THEN "restock" ELSE "reorder",
     relatedProduct |-> <<reqs[r].productId>>,
     message |-> IF reqs[r].op = "stockIn" THEN "restocked" ELSE "reorder request",
     metadata |-> IF reqs[r].op = "stockIn"
                  THEN <<reqs[r].previousStock, reqs[r].newStock, reqs[r].quantity>>
                  ELSE <<reqs[r].productId>>,
     isRead |-> FALSE]

\* A send that resolves without having created its Notification.
SendNotificationNoRow(r, recipient) ==
    /\ reqs[r].pc = "notify"
    /\ recipient \in reqs[r].pending
    /\ notifications' = notifications
    /\ LET rest == reqs[r].pending \ {recipient}
           sent == reqs[r].sent \cup {recipient}
       IN  IF rest # {}
           THEN /\ reqs' = [reqs EXCEPT ![r].pending = rest, ![r].sent = sent]
                /\ response' = NoResponse
           ELSE IF reqs[r].answered
           THEN /\ reqs' = [reqs EXCEPT ![r] = IdleReq]
                /\ response' = NoResponse
           ELSE Finish(r, FanOutReply(r, sent))
    /\ UNCHANGED <<products, transactions, users, stockWrites, audits>>

\* Notification_Service.sendNotification for one recipient: Notification.create.
\* The sends of Promise.all complete in any order; the handler answers after
\* the last one, unless a failed send made it answer before.
SendNotification(r, recipient) ==
    /\ reqs[r].pc = "notify"
    /\ recipient \in reqs[r].pending
    /\ notifications' = Append(notifications, NotificationRow(r, recipient))
    /\ LET rest == reqs[r].pending \ {recipient}
           sent == reqs[r].sent \cup {recipient}
       IN  IF rest # {}
           THEN /\ reqs' = [reqs EXCEPT ![r].pending = rest, ![r].sent = sent]
                /\ response' = NoResponse
           ELSE IF reqs[r].answered
           THEN /\ reqs' = [reqs EXCEPT ![r] = IdleReq]
                /\ response' = NoResponse
           ELSE Finish(r, FanOutReply(r, sent))
    /\ UNCHANGED <<products, transactions, users, stockWrites, audits>>

\* catch (error) of requestReorder: res.status(500)
ReorderFailure(r) == StockError("requestReorder", <<reqs[r].productId>>, <<>>, 500, "ServerError")

\* A failed send that undoes what the request has written so far.
SendNotificationFailsUndo(r, recipient) ==
    /\ reqs[r].pc = "notify"
    /\ recipient \in reqs[r].pending
    /\ notifications' = SelectSeq(notifications,
            LAMBDA n : ~(n.relatedProduct = <<reqs[r].productId>> /\ n.recipient \in reqs[r].sent))
    /\ transactions' = SelectSeq(transactions, LAMBDA t : t.product # reqs[r].productId)
    /\ Finish(r, IF reqs[r].op = "stockIn" THEN StockFailure(r) ELSE ReorderFailure(r))
    /\ UNCHANGED <<products, users, stockWrites, audits>>

\* Notification.create rejects for one recipient: sendNotification rethrows,
\* Promise.all rejects at once and the catch block answers 500.  The sends
\* already started for the other recipients go on.
SendNotificationFails(r, recipient) ==
    /\ reqs[r].pc = "notify"
    /\ recipient \in reqs[r].pending
    /\ LET rest == reqs[r].pending \ {recipient}
       IN  /\ reqs' = [reqs EXCEPT ![r] =
                    IF rest = {} THEN IdleReq
                    ELSE [@ EXCEPT !.pending = rest, !.answered = TRUE]]
           /\ response' = IF reqs[r].answered THEN NoResponse
                          ELSE IF reqs[r].op = "stockIn" THEN StockFailure(r)
                          ELSE ReorderFailure(r)
    /\ UNCHANGED <<products, transactions, notifications, users, stockWrites, audits>>

\* The positions of a collection, newest first: sort({ createdAt: -1 }).
Newest(S) ==
    LET RECURSIVE Desc(_)
        Desc(T) == IF T = {} THEN << >>
                   ELSE LET m == CHOOSE x \in T : \A y \in T : y <= x
                        IN  <<m>> \o Desc(T \ {m})
    IN  Desc(S)

\* .limit(limit)
Take(list, limit) == SubSeq(list, 1, IF Len(list) < limit THEN Len(list) ELSE limit)

\* The number of elements of S that satisfy Test.
CountOf(S, Test(_)) == Cardinality({x \in S : Test(x)})

\* reduce((sum, x) => sum + Field(x), 0) over the elements of S.
SumOf(S, Field(_)) ==
    LET RECURSIVE Sum(_)
        Sum(T) == IF T = {} THEN 0
                  ELSE LET x == CHOOSE y \in T : TRUE IN Field(x) + Sum(T \ {x})
    IN  Sum(S)

RecentLimit == 100             \* generateReport (inventory): .limit(100)

\* p => p.stock <= p.lowStockThreshold
LowStockFilter(p) == p.stock <= p.lowStockThreshold

\* generateReport, case 'lowStock': the summary and the products listed.
LowStockReport(all) ==
    LET low == {p \in DOMAIN all : LowStockFilter(all[p])}
    IN  [type |-> "lowStock",
         totalLowStockItems |-> Cardinality(low),
         criticalItems |-> CountOf(low, LAMBDA p : all[p].stock = 0),
         warningItems |-> CountOf(low, LAMBDA p :
                            all[p].stock > 0 /\ all[p].stock <= all[p].lowStockThreshold),
         products |-> low]

\* generateReport, case 'inventory': the summary, the products and the
\* recent Transactions, newest first.
InventoryReport(all, recent) ==
    [type |-> "inventory",
     totalProducts |-> Cardinality(DOMAIN all),
     totalStock |-> SumOf(DOMAIN all, LAMBDA p : all[p].stock),
     inStock |-> CountOf(DOMAIN all, LAMBDA p : all[p].stock > 0),
     outOfStock |-> CountOf(DOMAIN all, LAMBDA p : all[p].stock = 0),
     lowStock |-> CountOf(DOMAIN all, LAMBDA p :
                        all[p].stock > 0 /\ all[p].stock <= all[p].lowStockThreshold),
     products |-> DOMAIN all,
     recentTransactions |-> recent]

\* generateReport, case 'transactions': the summary and the Transactions,
\* newest first (todayTransactions, a count by creation date, is left out).
TransactionsReport(txs) ==
    LET ids == 1..Len(txs)
    IN  [type |-> "transactions",
         totalTransactions |-> Len(txs),
         stockIn |-> CountOf(ids, LAMBDA i : txs[i].type = "in"),
         stockOut |-> CountOf(ids, LAMBDA i : txs[i].type = "out"),
         totalQuantityIn |-> SumOf({i \in ids : txs[i].type = "in"},
                                   LAMBDA i : txs[i].quantity),
         totalQuantityOut |-> SumOf({i \in ids : txs[i].type = "out"},
                                    LAMBDA i : txs[i].quantity),
         transactions |-> Newest(ids)]

\* populate('product'): the Transactions of the list whose Product is gone
\* come back with product null, and t.product.name throws.
Dangling(list) ==
    \E j \in 1..Len(list) : transactions[list[j]].product \notin DOMAIN products

ReportAnswer(r, type, list, report) ==
    Finish(r, IF Dangling(list)
              THEN [Reply("generateReport", 500, "ServerError") EXCEPT !.type = type]
              ELSE [Reply("generateReport", 200, "") EXCEPT !.type = type, !.data = <<report>>])

\* generateReport up to its answer or, for the inventory report, up to its
\* second await: const { type = 'inventory' } = req.query and the switch.
GenerateReport(r, type) ==
    /\ Admit(r)
    /\ UNCHANGED <<products, transactions, notifications, users, stockWrites, audits>>
    /\ LET kind == IF Has(type) THEN Val(type) ELSE "inventory"
       IN  CASE kind = "inventory" ->
                    /\ reqs' = [reqs EXCEPT ![r] =
                            [IdleReq EXCEPT !.pc = "report", !.op = "generateReport",
                                            !.query = type, !.data = <<products>>]]
                    /\ response' = NoResponse
             [] kind = "transactions" ->
                    ReportAnswer(r, type, Newest(1..Len(transactions)),
                                 TransactionsReport(transactions))
             [] kind = "lowStock" ->
                    ReportAnswer(r, type, << >>, LowStockReport(products))
             [] OTHER ->
                    Finish(r, [Reply("generateReport", 400, "ValidationError")
                                    EXCEPT !.type = type])

\* generateReport, inventory, second await: Transaction.find({}) with its
\* populate, sort and limit, then the answer.
GenerateReportRecent(r) ==
    /\ reqs[r].pc = "report"
    /\ UNCHANGED <<products, transactions, notifications, users, stockWrites, audits>>
    /\ LET recent == Take(Newest(1..Len(transactions)), RecentLimit)
       IN  ReportAnswer(r, reqs[r].query, recent, InventoryReport(reqs[r].data[1], recent))

(***************************************************************************)
(* controllers/clerk.controller.js                                         *)
(***************************************************************************)
\* transactionSchema.status: enum
OrderStatuses == {"pending", "completed", "rejected"}

\* A check of the body that lets every status through.
OrderStatusAny(status) == Has(status)

\* ['pending', 'completed', 'rejected'].includes(status)
OrderStatusValid(status) == Has(status) /\ Val(status) \in {"pending", "completed", "rejected"}

\* updateOrderStatus: the check of the body, then one
\* Transaction.findByIdAndUpdate(id, { status }, { runValidators: true })
\* with its populate; the answer reads transaction.product.name, which
\* throws when the Product is gone.
UpdateOrderStatus(r, id, status) ==
    /\ Admit(r)
    /\ LET echo(res) == [res EXCEPT !.id = <<id>>, !.status = status]
       IN  IF ~OrderStatusValid(status)
           THEN /\ Finish(r, echo(Reply("updateOrderStatus", 400, "ValidationError")))
                /\ UNCHANGED transactions
           ELSE IF Val(status) \notin OrderStatuses
           THEN /\ Finish(r, echo(Reply("updateOrderStatus", 500, "ServerError")))
                /\ UNCHANGED transactions
           ELSE IF id \notin 1..Len(transactions)
           THEN /\ Finish(r, echo(Reply("updateOrderStatus", 404, "NotFound")))
                /\ UNCHANGED transactions
           ELSE /\ transactions' = [transactions EXCEPT ![id].status = Val(status)]
                /\ Finish(r, echo(IF transactions[id].product \in DOMAIN products
                                   THEN Reply("updateOrderStatus", 200, "")
                                   ELSE Reply("updateOrderStatus", 500, "ServerError")))
    /\ UNCHANGED <<products, notifications, users, stockWrites, audits>>

\* requestReorder up to its second await: the check of the body and
\* Product.findById.
RequestReorderBegin(r, productId) ==
    /\ Admit(r)
    /\ Len(notifications) < MaxNotifications
    /\ UNCHANGED <<products, transactions, notifications, users, stockWrites, audits>>
    /\ IF ~Has(productId)
       THEN Finish(r, StockError("requestReorder", productId, <<>>, 400, "ValidationError"))
       ELSE IF Val(productId) \notin DOMAIN products
       THEN Finish(r, StockError("requestReorder", productId, <<>>, 404, "NotFound"))
       ELSE /\ reqs' = [reqs EXCEPT ![r] =
                    [IdleReq EXCEPT !.pc = "managers", !.op = "requestReorder",
                                    !.productId = Val(productId)]]
            /\ response' = NoResponse

\* requestReorder: await User.find({ role: 'manager' }), then the sends are started.
FindManagers(r) ==
    /\ reqs[r].pc = "managers"
    /\ LET managers == UsersWithRole("manager")
       IN  IF managers = {}
           THEN Finish(r, ReorderReply(r, {}))
           ELSE /\ reqs' = [reqs EXCEPT ![r].pc = "notify", ![r].pending = managers,
                                        ![r].found = managers]
                /\ response' = NoResponse
    /\ UNCHANGED <<products, transactions, notifications, users, stockWrites, audits>>

(***************************************************************************)
(* controllers/admin.controller.js                                         *)
(***************************************************************************)
\* updateUserRole: the checks of the body, then one User.findByIdAndUpdate.
UpdateUserRole(r, userId, role) ==
    /\ Admit(r)
    /\ IF ~Has(role) \/ Val(role) \notin ValidRoles \/ userId = Admin
       THEN /\ Finish(r, Reply("updateUserRole", 400, "ValidationError"))
            /\ UNCHANGED users
       ELSE IF userId \notin DOMAIN users
       THEN /\ Finish(r, Reply("updateUserRole", 404, "NotFound"))
            /\ UNCHANGED users
       ELSE /\ users' = [users EXCEPT ![userId] = Val(role)]
            /\ Finish(r, Reply("updateUserRole", 200, ""))
    /\ UNCHANGED <<products, transactions, notifications, stockWrites, audits>>

\* controllers/user.controller.js, deleteUser: the check of the caller, then
\* one User.findByIdAndDelete.
DeleteUser(r, user, userId) ==
    /\ Admit(r)
    /\ IF userId = user
       THEN /\ Finish(r, [Reply("deleteUser", 400, "ValidationError") EXCEPT !.user = user])
            /\ UNCHANGED users
       ELSE IF userId \notin DOMAIN users
       THEN /\ Finish(r, [Reply("deleteUser", 404, "NotFound") EXCEPT !.user = user])
            /\ UNCHANGED users
       ELSE /\ users' = [u \in DOMAIN users \ {userId} |-> users[u]]
            /\ Finish(r, [Reply("deleteUser", 200, "") EXCEPT !.user = user])
    /\ UNCHANGED <<products, transactions, notifications, stockWrites, audits>>

(***************************************************************************)
(* controllers/auditor.controller.js, models/Audit.js                      *)
(***************************************************************************)
\* !product.price || product.price <= 0
InvalidPrice(price) == ~Has(price) \/ Val(price) = 0 \/ Val(price) <= 0

Finding(type, severity) == [type |-> type, severity |-> severity]

\* The checks of Auditor.auditInventory: the threshold check does not spare
\* the status out-of-stock.
ProductFindingsSummary(product) ==
    (IF product.stock < 0 THEN <<Finding("negative_stock", "high")>> ELSE << >>)
    \o (IF product.stock = 0 /\ product.status # "out-of-stock"
        THEN <<Finding("status_mismatch", "medium")>> ELSE << >>)
    \o (IF /\ product.stock > 0
           /\ product.stock <= product.lowStockThreshold
           /\ product.status # "low-stock"
        THEN <<Finding("low_stock_mismatch", "low")>> ELSE << >>)
    \o (IF InvalidPrice(product.price)
        THEN <<Finding("invalid_price", "medium")>> ELSE << >>)

\* createNewAudit, the body of allProducts.forEach: productDiscrepancies.
ProductFindings(product) ==
    (IF product.stock < 0 THEN <<Finding("negative_stock", "high")>> ELSE << >>)
    \o (IF product.stock = 0 /\ product.status # "out-of-stock"
        THEN <<Finding("status_mismatch", "medium")>> ELSE << >>)
    \o (IF /\ product.stock > 0
           /\ product.stock <= product.lowStockThreshold
           /\ product.status # "low-stock"
           /\ product.status # "out-of-stock"
        THEN <<Finding("low_stock_mismatch", "low")>> ELSE << >>)
    \o (IF InvalidPrice(product.price)
        THEN <<Finding("invalid_price", "medium")>> ELSE << >>)

\* createNewAudit: auditResults, one entry for each product with a finding,
\* in the order of Product.find({}).
AuditResults(all) ==
    LET RECURSIVE Scan(_)
        Scan(p) ==
            IF p \notin DOMAIN all THEN << >>
            ELSE (IF ProductFindings(all[p]) = << >> THEN << >>
                  ELSE <<[productId |-> p, currentStock |-> all[p].stock,
                          status |-> all[p].status,
                          discrepancies |-> ProductFindings(all[p])]>>)
                 \o Scan(p + 1)
    IN  Scan(1)

\* Auditor.auditInventory: the lines of the summary, one for each check
\* that a product fails, in the order of the products.
AuditInventory(all) ==
    LET lines(product) ==
            (IF product.stock < 0 THEN <<"has negative stock">> ELSE << >>)
            \o (IF product.stock = 0 /\ product.status # "out-of-stock"
                THEN <<"has 0 stock but status is">> ELSE << >>)
            \o (IF /\ product.stock > 0
                   /\ product.stock <= product.lowStockThreshold
                   /\ product.status # "low-stock"
                THEN <<"is below threshold but status is">> ELSE << >>)
            \o (IF InvalidPrice(product.price) THEN <<"has invalid price">> ELSE << >>)
        RECURSIVE Scan(_)
        Scan(p) == IF p \notin DOMAIN all THEN << >> ELSE lines(all[p]) \o Scan(p + 1)
    IN  Scan(1)

\* discrepancyBreakdown: the findings of each severity, counted.
Breakdown(results) ==
    LET count(severity) ==
            SumOf(1..Len(results), LAMBDA i :
                CountOf(1..Len(results[i].discrepancies),
                        LAMBDA j : results[i].discrepancies[j].severity = severity))
    IN  [high |-> count("high"), medium |-> count("medium"), low |-> count("low")]

\* discrepancies.length: the findings of all products together.
TotalDiscrepancies(results) ==
    LET RECURSIVE Count(_)
        Count(i) == IF i > Len(results) THEN 0
                    ELSE Len(results[i].discrepancies) + Count(i + 1)
    IN  Count(1)

\* Audit documents created or being created: the admission bound of the model.
AuditsBegun == Len(audits) + Cardinality({r \in Reqs : reqs[r].pc = "audit"})

\* A schema whose discrepancies are subdocuments with the fields type,
\* message and severity.
DetailsValidAsSubdocuments(details) == TRUE

\* discrepancyDetails[].discrepancies: [{ type: String, message: String,
\* severity: String }].  The key `type` makes this the declaration of an
\* array of String (message and severity are options of that String), so
\* every element must cast to a String, and the objects pushed by
\* createNewAudit do not: the document fails validation as soon as one
\* entry holds a finding.
DetailsValid(details) ==
    \A i \in 1..Len(details) : details[i].discrepancies = << >>

\* createNewAudit, first await: Product.find({}) and the scan of its result.
\* The summary of Auditor.auditInventory is computed after the second await,
\* from the same result: it is kept here with the scan.
CreateNewAuditBegin(r) ==
    /\ Admit(r)
    /\ AuditsBegun < MaxAudits
    /\ reqs' = [reqs EXCEPT ![r] =
            [IdleReq EXCEPT !.pc = "audit", !.op = "createNewAudit",
                            !.auditResults = AuditResults(products),
                            !.data = AuditInventory(products)]]
    /\ response' = NoResponse
    /\ UNCHANGED <<products, transactions, notifications, users, stockWrites, audits>>

\* createNewAudit, second await: Audit.create({ status: 'in-progress', ... }).
AuditCreate(r) ==
    /\ reqs[r].pc = "audit"
    /\ LET results == reqs[r].auditResults
       IN  IF ~DetailsValid(results)
           THEN /\ Finish(r, Reply("createNewAudit", 500, "ServerError"))
                /\ UNCHANGED audits
           ELSE /\ audits' = Append(audits,
                        [title |-> "Inventory Audit", date |-> "now",
                         status |-> "in-progress",
                         discrepancies |-> TotalDiscrepancies(results),
                         discrepancyDetails |-> results])
                /\ Finish(r, [Reply("createNewAudit", 200, "") EXCEPT
                                !.auditId = <<Len(audits) + 1>>,
                                !.totalDiscrepancies = <<TotalDiscrepancies(results)>>,
                                !.auditResults = results,
                                !.data = <<Breakdown(results)>>,
                                !.count = <<Len(reqs[r].data)>>])
    /\ UNCHANGED <<products, transactions, notifications, users, stockWrites>>

ValidDates == {"2026-01-01"}

\* new Date(date): a Date, or the Invalid Date that the schema refuses to cast.
ParseDate(date) == IF date \in ValidDates THEN <<date>> ELSE << >>

\* A scheduleAudit that scans the products as createNewAudit does.
ScheduleAuditScans(r, title, date) ==
    /\ Admit(r)
    /\ AuditsBegun < MaxAudits
    /\ LET echo(res) == [res EXCEPT !.title = title, !.date = date]
       IN  IF ~Has(title) \/ Val(title) = "" \/ ~Has(date) \/ Val(date) = ""
           THEN /\ Finish(r, echo(Reply("scheduleAudit", 400, "ValidationError")))
                /\ UNCHANGED audits
           ELSE IF Trim(Val(title)) = "" \/ ~Has(ParseDate(Val(date)))
           THEN /\ Finish(r, echo(Reply("scheduleAudit", 500, "ServerError")))
                /\ UNCHANGED audits
           ELSE /\ audits' = Append(audits,
                        [title |-> Trim(Val(title)), date |-> Val(ParseDate(Val(date))),
                         status |-> "scheduled",
                         discrepancies |-> TotalDiscrepancies(AuditResults(products)),
                         discrepancyDetails |-> << >>])
                /\ Finish(r, echo([Reply("scheduleAudit", 201, "")
                                    EXCEPT !.auditId = <<Len(audits) + 1>>]))
    /\ UNCHANGED <<products, transactions, notifications, users, stockWrites>>

\* scheduleAudit: the check of the body, then Audit.create({ status: 'scheduled',
\* discrepancies: 0, ... }) with its validation (title and date required).
ScheduleAudit(r, title, date) ==
    /\ Admit(r)
    /\ AuditsBegun < MaxAudits
    /\ LET echo(res) == [res EXCEPT !.title = title, !.date = date]
       IN  IF ~Has(title) \/ Val(title) = "" \/ ~Has(date) \/ Val(date) = ""
           THEN /\ Finish(r, echo(Reply("scheduleAudit", 400, "ValidationError")))
                /\ UNCHANGED audits
           ELSE IF Trim(Val(title)) = "" \/ ~Has(ParseDate(Val(date)))
           THEN /\ Finish(r, echo(Reply("scheduleAudit", 500, "ServerError")))
                /\ UNCHANGED audits
           ELSE /\ audits' = Append(audits,
                        [title |-> Trim(Val(title)), date |-> Val(ParseDate(Val(date))),
                         status |-> "scheduled", discrepancies |-> 0,
                         discrepancyDetails |-> << >>])
                /\ Finish(r, echo([Reply("scheduleAudit", 201, "")
                                    EXCEPT !.auditId = <<Len(audits) + 1>>]))
    /\ UNCHANGED <<products, transactions, notifications, users, stockWrites>>

\* A completeAudit that takes every audit for an open one.
NeverCompleted(audit) == FALSE

\* if (audit.status === 'completed')
AlreadyCompleted(audit) == audit.status = "completed"

\* completeAudit, first await: Audit.findById(id) and the two checks.
CompleteAuditBegin(r, id) ==
    /\ Admit(r)
    /\ UNCHANGED <<products, transactions, notifications, users, stockWrites, audits>>
    /\ LET echo(res) == [res EXCEPT !.auditId = <<id>>]
       IN  IF id \notin 1..Len(audits)
           THEN Finish(r, echo(Reply("completeAudit", 404, "NotFound")))
           ELSE IF AlreadyCompleted(audits[id])
           THEN Finish(r, echo(Reply("completeAudit", 400, "AlreadyCompleted")))
           ELSE /\ reqs' = [reqs EXCEPT ![r] =
                        [IdleReq EXCEPT !.pc = "complete", !.op = "completeAudit",
                                        !.auditId = id]]
                /\ response' = NoResponse

\* A completion that scans the products again and stores what it finds.
CompleteAuditSaveRescans(r) ==
    /\ reqs[r].pc = "complete"
    /\ audits' = [audits EXCEPT
            ![reqs[r].auditId].status = "completed",
            ![reqs[r].auditId].discrepancies = TotalDiscrepancies(AuditResults(products))]
    /\ Finish(r, [Reply("completeAudit", 200, "") EXCEPT !.auditId = <<reqs[r].auditId>>])
    /\ UNCHANGED <<products, transactions, notifications, users, stockWrites>>

\* completeAudit, second await: audit.status = 'completed'; audit.save(),
\* which sets the one modified path.
CompleteAuditSave(r) ==
    /\ reqs[r].pc = "complete"
    /\ audits' = [audits EXCEPT ![reqs[r].auditId].status = "completed"]
    /\ Finish(r, [Reply("completeAudit", 200, "") EXCEPT !.auditId = <<reqs[r].auditId>>])
    /\ UNCHANGED <<products, transactions, notifications, users, stockWrites>>

(***************************************************************************)
(* controllers/notification.controller.js                                  *)
(***************************************************************************)
\* The identities a token can carry: the users and the hardcoded admin.
Callers == UserIds \cup {Admin}

DefaultLimit == 50             \* getNotifications: filters.limit || 50

\* A recipient filter that is widened for every caller.
AddressedToAnyone(user, n) == TRUE

\* A recipient filter that is never widened.
AddressedToRecipientOnly(user, n) == n.recipient = user

\* query.recipient: { $exists: true } for the hardcoded admin, the caller's
\* own id for every other caller.
AddressedTo(user, n) ==
    IF user = Admin THEN "recipient" \in DOMAIN n ELSE n.recipient = user

\* POST /notifications/send: the check of the body, then
\* Notification_Service.sendNotification with the caller as sender.
SendNotificationRequest(r, user, recipientId, message, type, productId) ==
    /\ Admit(r)
    /\ Len(notifications) < MaxNotifications
    /\ LET echo(res) == [res EXCEPT !.user = user]
       IN  IF ~Has(recipientId) \/ ~Has(message) \/ Val(message) = ""
           THEN /\ Finish(r, echo(Reply("sendNotification", 400, "ValidationError")))
                /\ UNCHANGED notifications
           ELSE /\ notifications' = Append(notifications,
                        [recipient |-> Val(recipientId), sender |-> user,
                         type |-> IF Has(type) /\ Val(type) # "" THEN Val(type)
                                  ELSE "system",
                         relatedProduct |-> productId,
                         message |-> Val(message), metadata |-> << >>,
                         isRead |-> FALSE])
                /\ Finish(r, [echo(Reply("sendNotification", 201, ""))
                                EXCEPT !.id = <<Len(notifications) + 1>>])
    /\ UNCHANGED <<products, transactions, users, stockWrites, audits>>

\* isRead === 'true'
ParseBool(text) == text = "true"

\* Notification_Service.getNotifications: the query and its result.
FindNotifications(user, isRead, type, limit) ==
    LET hit == {i \in 1..Len(notifications) :
                    /\ AddressedTo(user, notifications[i])
                    /\ Has(isRead) => notifications[i].isRead = ParseBool(Val(isRead))
                    /\ (Has(type) /\ Val(type) # "") => notifications[i].type = Val(type)}
    IN  Take(Newest(hit), IF Has(limit) /\ Val(limit) # 0 THEN Val(limit) ELSE DefaultLimit)

\* A count over the Notifications of every recipient.
UnreadCountOfAll(user) ==
    Cardinality({i \in 1..Len(notifications) : ~notifications[i].isRead})

\* Notification_Service.getUnreadCount: countDocuments({ isRead: false, recipient }).
UnreadCount(user) ==
    Cardinality({i \in 1..Len(notifications) :
                    ~notifications[i].isRead /\ AddressedTo(user, notifications[i])})

\* GET /notifications, first await: the find.
GetNotificationsFind(r, user, isRead, type, limit) ==
    /\ Admit(r)
    /\ reqs' = [reqs EXCEPT ![r] =
            [IdleReq EXCEPT !.pc = "count", !.op = "getNotifications", !.user = user,
                            !.query = <<isRead, type, limit>>,
                            !.data = FindNotifications(user, isRead, type, limit)]]
    /\ response' = NoResponse
    /\ UNCHANGED <<products, transactions, notifications, users, stockWrites, audits>>

\* GET /notifications, second await: the unread count, then the answer.
GetNotificationsCount(r) ==
    /\ reqs[r].pc = "count"
    /\ Finish(r, [Reply("getNotifications", 200, "") EXCEPT
                    !.user = reqs[r].user, !.data = reqs[r].data,
                    !.count = <<UnreadCount(reqs[r].user)>>])
    /\ UNCHANGED <<products, transactions, notifications, users, stockWrites, audits>>

\* GET /notifications/unread-count
GetUnreadCount(r, user) ==
    /\ Admit(r)
    /\ Finish(r, [Reply("getUnreadCount", 200, "") EXCEPT
                    !.user = user, !.count = <<UnreadCount(user)>>])
    /\ UNCHANGED <<products, transactions, notifications, users, stockWrites, audits>>

\* A check that lets every caller through.
MayMarkAnyone(user, n) == TRUE

\* recipientId === 'admin-hardcoded' || notification.recipient.toString() === recipientId.toString()
MayMark(user, n) == user = Admin \/ n.recipient = user

\* PUT /notifications/:id/read, first await: Notification.findById and the
\* check of the caller.
MarkAsReadBegin(r, user, id) ==
    /\ Admit(r)
    /\ UNCHANGED <<products, transactions, notifications, users, stockWrites, audits>>
    /\ LET echo(res) == [res EXCEPT !.user = user, !.id = <<id>>]
       IN  IF id \notin 1..Len(notifications)
           THEN Finish(r, echo(Reply("markAsRead", 404, "NotFound")))
           ELSE IF ~MayMark(user, notifications[id])
           THEN Finish(r, echo(Reply("markAsRead", 403, "Forbidden")))
           ELSE /\ reqs' = [reqs EXCEPT ![r] =
                        [IdleReq EXCEPT !.pc = "read", !.op = "markAsRead",
                                        !.user = user, !.id = id]]
                /\ response' = NoResponse

\* An update that toggles the flag.
MarkAsReadToggles(r) ==
    /\ reqs[r].pc = "read"
    /\ notifications' = [notifications EXCEPT ![reqs[r].id].isRead = ~@]
    /\ Finish(r, [Reply("markAsRead", 200, "") EXCEPT
                    !.user = reqs[r].user, !.id = <<reqs[r].id>>])
    /\ UNCHANGED <<products, transactions, users, stockWrites, audits>>

\* PUT /notifications/:id/read, second await: Notification_Service.markAsRead,
\* findByIdAndUpdate(id, { isRead: true }).
MarkAsRead(r) ==
    /\ reqs[r].pc = "read"
    /\ notifications' = [notifications EXCEPT ![reqs[r].id].isRead = TRUE]
    /\ Finish(r, [Reply("markAsRead", 200, "") EXCEPT
                    !.user = reqs[r].user, !.id = <<reqs[r].id>>])
    /\ UNCHANGED <<products, transactions, users, stockWrites, audits>>

\* PUT /notifications/read-all: updateMany({ isRead: false, recipient }, { isRead: true });
\* the answer carries modifiedCount.
MarkAllAsRead(r, user) ==
    /\ Admit(r)
    /\ notifications' = [i \in 1..Len(notifications) |->
            IF ~notifications[i].isRead /\ AddressedTo(user, notifications[i])
            THEN [notifications[i] EXCEPT !.isRead = TRUE]
            ELSE notifications[i]]
    /\ Finish(r, [Reply("markAllAsRead", 200, "") EXCEPT
                    !.user = user, !.count = <<UnreadCount(user)>>])
    /\ UNCHANGED <<products, transactions, users, stockWrites, audits>>

StockOps == {"stockIn", "stockOut"}

\* The requests of well-formed clients.
GoodIds == {<<p>> : p \in ProductIds}
GoodQtys == {<<q>> : q \in 1..MaxQty}

CreateStep ==
    \E r \in Reqs, sku \in Skus, stock \in Opt(StockInputs), th \in Opt(ThresholdInputs) :
        \E price \in GoodPrices : CreateProductBegin(r, sku, stock, th, price)
InsertStep == \E r \in Reqs : CreateProductInsert(r)
UpdateStep ==
    \E r \in Reqs, id \in ProductIds, stock \in Opt(UpdateStocks), th \in Opt(ThresholdInputs) :
        UpdateProduct(r, id, stock, th, <<>>)
StockStep ==
    \E r \in Reqs, op \in StockOps, id \in GoodIds, q \in GoodQtys : StockBegin(r, op, id, q)
SaveStep == \E r \in Reqs : ProductSave(r)
TxStep == \E r \in Reqs : TransactionCreate(r)
TxFailStep == \E r \in Reqs : TransactionCreateFails(r)
ClerksStep == \E r \in Reqs : FindClerks(r)
NotifyStep == \E r \in Reqs, c \in UserIds : SendNotification(r, c)

\* Every operation that writes a Product, over a database that does not fail.
Next ==
    \/ CreateStep
    \/ InsertStep
    \/ UpdateStep
    \/ StockStep
    \/ SaveStep
    \/ TxStep
    \/ ClerksStep
    \/ NotifyStep

Spec == Init /\ [][Next]_vars

(***************************************************************************)
(* The stock ledger alone: products are created, then only stockIn and     *)
(* stockOut write them; Transaction.create may fail.                       *)
(***************************************************************************)
NextLedger ==
    \/ CreateStep
    \/ InsertStep
    \/ StockStep
    \/ SaveStep
    \/ TxStep
    \/ TxFailStep
    \/ ClerksStep
    \/ NotifyStep

SpecLedger == Init /\ [][NextLedger]_vars

(***************************************************************************)
(* The stock ledger under arbitrary request bodies: productId and quantity *)
(* present or missing, quantity of any sign.                               *)
(***************************************************************************)
AnyStockStep ==
    \E r \in Reqs, op \in StockOps, id \in Opt(ProductIds), q \in Opt(QtyInputs) :
        StockBegin(r, op, id, q)

NextBodies ==
    \/ \E r \in Reqs, sku \in Skus, stock \in {<<1>>, <<MaxStock>>} :
            CreateProductBegin(r, sku, stock, <<1>>, <<1>>)
    \/ InsertStep
    \/ AnyStockStep
    \/ SaveStep
    \/ TxStep
    \/ ClerksStep
    \/ NotifyStep

SpecBodies == Init /\ [][NextBodies]_vars

(***************************************************************************)
(* The notification relay of the ledger: one product, stockIn / stockOut   *)
(* fanning out to the clerks while an admin changes roles; a Notification  *)
(* write may fail.                                                         *)
(***************************************************************************)
RoleInputs == Opt({"clerk", "manager"})
RoleTargets == UserIds \cup {Admin}

RelayCreateStep ==
    \E r \in Reqs, sku \in Skus : CreateProductBegin(r, sku, <<1>>, <<1>>, <<1>>)
RelayStockStep ==
    \E r \in Reqs, op \in StockOps, id \in DOMAIN products : StockBegin(r, op, <<id>>, <<1>>)
NotifyFailStep == \E r \in Reqs, u \in UserIds : SendNotificationFails(r, u)
RoleStep == \E r \in Reqs, u \in RoleTargets, role \in RoleInputs : UpdateUserRole(r, u, role)

NextRelay ==
    \/ RelayCreateStep
    \/ InsertStep
    \/ RelayStockStep
    \/ SaveStep
    \/ TxStep
    \/ ClerksStep
    \/ NotifyStep
    \/ NotifyFailStep
    \/ RoleStep

SpecRelay == Init /\ [][NextRelay]_vars

(***************************************************************************)
(* Reorder requests: one product, requestReorder fanning out to the        *)
(* managers while an admin changes roles.                                  *)
(***************************************************************************)
ReorderStep == \E r \in Reqs, id \in Opt(ProductIds) : RequestReorderBegin(r, id)
ManagersStep == \E r \in Reqs : FindManagers(r)

NextReorder ==
    \/ RelayCreateStep
    \/ InsertStep
    \/ ReorderStep
    \/ ManagersStep
    \/ NotifyStep
    \/ NotifyFailStep
    \/ RoleStep

SpecReorder == Init /\ [][NextReorder]_vars

(***************************************************************************)
(* The audits: one product written by createProduct and updateProduct,     *)
(* and the auditor's createNewAudit, scheduleAudit and completeAudit.      *)
(***************************************************************************)
TitleInputs == Opt({"", " ", "t"})
DateInputs == Opt({"", "someday"} \cup ValidDates)
AuditIds == 1..(MaxAudits + 1)

AuditProductStep ==
    \E r \in Reqs, sku \in Skus, stock \in {<<0>>, <<MaxStock>>}, price \in {<< >>, <<1>>} :
        CreateProductBegin(r, sku, stock, <<1>>, price)
AuditUpdateStep ==
    \E r \in Reqs, id \in DOMAIN products, stock \in {<<0>>, <<1>>} :
        UpdateProduct(r, id, stock, << >>, << >>)
ScanStep == \E r \in Reqs : CreateNewAuditBegin(r)
PersistStep == \E r \in Reqs : AuditCreate(r)
ScheduleStep == \E r \in Reqs, title \in TitleInputs, date \in DateInputs : ScheduleAudit(r, title, date)
CompleteStep == \E r \in Reqs, id \in AuditIds : CompleteAuditBegin(r, id)
CompleteSaveStep == \E r \in Reqs : CompleteAuditSave(r)

NextAudit ==
    \/ AuditProductStep
    \/ InsertStep
    \/ AuditUpdateStep
    \/ ScanStep
    \/ PersistStep
    \/ ScheduleStep
    \/ CompleteStep
    \/ CompleteSaveStep

SpecAudit == Init /\ [][NextAudit]_vars

(***************************************************************************)
(* The scan of createNewAudit over a Product collection as any writer may  *)
(* have left it (an import, the database shell): fields outside what the   *)
(* schema validators admit included.                                       *)
(***************************************************************************)
Statuses == {"in-stock", "low-stock", "out-of-stock"}
ScanSkus == <<"X1", "X2">>
ScanRows(p) ==
    [sku : {ScanSkus[p]}, stock : (0 - 1)..MaxStock, lowStockThreshold : ThresholdInputs,
     status : Statuses, price : Opt({0 - 1, 0, 1})]
ScanCollections ==
    {c \in UNION {[1..n -> UNION {ScanRows(p) : p \in 1..n}] : n \in 1..Len(ScanSkus)} :
        \A p \in DOMAIN c : c[p] \in ScanRows(p)}

InitScan ==
    /\ products \in ScanCollections
    /\ transactions = << >>
    /\ notifications = << >>
    /\ users = [u \in UserIds |-> IF u \in Clerks THEN "clerk" ELSE "manager"]
    /\ reqs = [r \in Reqs |-> IdleReq]
    /\ response = NoResponse
    /\ stockWrites = [p \in ProductIds |-> 0]
    /\ audits = << >>

NextScan ==
    \/ ScanStep
    \/ PersistStep

SpecScan == InitScan /\ [][NextScan]_vars

(***************************************************************************)
(* The inbox: notifications sent through POST /notifications/send, read    *)
(* and marked by their recipients, by other users and by the admin, while  *)
(* the admin deletes users.                                                *)
(***************************************************************************)
SendStep ==
    \E r \in Reqs, to \in Opt(UserIds), message \in {<<"">>, <<"m">>} :
        SendNotificationRequest(r, Manager, to, message, << >>, << >>)
FindStep ==
    \E r \in Reqs, user \in Callers, isRead \in Opt({"false"}), limit \in Opt({1}) :
        GetNotificationsFind(r, user, isRead, << >>, limit)
CountStep == \E r \in Reqs : GetNotificationsCount(r)
UnreadStep == \E r \in Reqs, user \in Callers : GetUnreadCount(r, user)
NotificationIds == 1..(MaxNotifications + 1)
MarkBeginStep == \E r \in Reqs, user \in Callers, id \in NotificationIds : MarkAsReadBegin(r, user, id)
MarkStep == \E r \in Reqs : MarkAsRead(r)
MarkAllStep == \E r \in Reqs, user \in Callers : MarkAllAsRead(r, user)
DeleteUserStep == \E r \in Reqs, u \in Clerks : DeleteUser(r, Admin, u)

NextInbox ==
    \/ SendStep
    \/ FindStep
    \/ CountStep
    \/ UnreadStep
    \/ MarkBeginStep
    \/ MarkStep
    \/ MarkAllStep
    \/ DeleteUserStep

SpecInbox == Init /\ [][NextInbox]_vars

(***************************************************************************)
(* The orders: one product, created before the first stock request and     *)
(* deleted at any time, stockIn / stockOut logging Transactions, and the   *)
(* clerk's updateOrderStatus.                                              *)
(***************************************************************************)
OrderIds == 1..(MaxTx + 1)
OrderStatusInputs == Opt({"pending", "rejected", "shipped"})

OrdersCreateStep ==
    /\ transactions = << >>
    /\ \A r \in Reqs : reqs[r].pc = "idle"
    /\ \A p \in ProductIds : stockWrites[p] = 0
    /\ RelayCreateStep
OrderStep ==
    \E r \in Reqs, id \in OrderIds, status \in OrderStatusInputs : UpdateOrderStatus(r, id, status)
DeleteStep == \E r \in Reqs, id \in ProductIds : DeleteProduct(r, id)

NextOrders ==
    \/ OrdersCreateStep
    \/ InsertStep
    \/ RelayStockStep
    \/ SaveStep
    \/ TxStep
    \/ ClerksStep
    \/ NotifyStep
    \/ OrderStep
    \/ DeleteStep

SpecOrders == Init /\ [][NextOrders]_vars

(***************************************************************************)
(* The reports: one product, created before the first stock request and    *)
(* deleted at any time, stockIn / stockOut logging Transactions, and the   *)
(* manager's generateReport.                                               *)
(***************************************************************************)
ReportTypes == Opt({"inventory", "transactions", "lowStock", "sales"})

ReportStep == \E r \in Reqs, type \in ReportTypes : GenerateReport(r, type)
RecentStep == \E r \in Reqs : GenerateReportRecent(r)

NextReport ==
    \/ OrdersCreateStep
    \/ InsertStep
    \/ RelayStockStep
    \/ SaveStep
    \/ TxStep
    \/ ClerksStep
    \/ NotifyStep
    \/ DeleteStep
    \/ ReportStep
    \/ RecentStep

SpecReport == Init /\ [][NextReport]_vars

(***************************************************************************)
(* The low-stock views: controllers/clerk.controller.js,                   *)
(* controllers/product.controller.js and the admin dashboard               *)
(***************************************************************************)
\* Clerk.checkLowStock: product.stock <= product.lowStockThreshold
checkLowStock(p) == p.stock <= p.lowStockThreshold

\* { status: { $in: ['low-stock', 'out-of-stock'] } }
StatusIsLow(p) == p.status \in {"low-stock", "out-of-stock"}

\* allProducts.filter(product => clerkInstance.checkLowStock(product))
StockBasedView(all) == {id \in DOMAIN all : checkLowStock(all[id])}

\* Product.find / countDocuments({ status: { $in: [...] } })
StatusBasedView(all) == {id \in DOMAIN all : StatusIsLow(all[id])}

\* GET /clerk/lowStock: one Product.find({}), filtered in the handler.
ClerkGetLowStockProducts(r) ==
    /\ Admit(r)
    /\ Finish(r, [Reply("clerkLowStock", 200, "") EXCEPT
                    !.data = <<StockBasedView(products)>>,
                    !.count = <<Cardinality(StockBasedView(products))>>])
    /\ UNCHANGED <<products, transactions, notifications, users, stockWrites, audits>>

\* GET /products/low-stock: one Product.find by status; populate of a deleted
\* user leaves addedBy null.
GetLowStockProducts(r) ==
    /\ Admit(r)
    /\ Finish(r, [Reply("getLowStockProducts", 200, "") EXCEPT
                    !.data = <<StatusBasedView(products)>>,
                    !.count = <<Cardinality(StatusBasedView(products))>>])
    /\ UNCHANGED <<products, transactions, notifications, users, stockWrites, audits>>

\* GET /clerk/stats, first await: Product.find({}); the counts over the
\* products are taken from this read.
ClerkStatsFind(r) ==
    /\ Admit(r)
    /\ reqs' = [reqs EXCEPT ![r] =
            [IdleReq EXCEPT !.pc = "pending", !.op = "clerkStats",
                !.data = <<[lowStockItems |-> Cardinality(StockBasedView(products)),
                            totalProducts |-> Cardinality(DOMAIN products),
                            outOfStock |-> Cardinality({id \in DOMAIN products :
                                                            products[id].stock = 0})]>>]]
    /\ response' = NoResponse
    /\ UNCHANGED <<products, transactions, notifications, users, stockWrites, audits>>

\* GET /clerk/stats, second await: Transaction.countDocuments({ status:
\* 'pending' }), then the answer.
ClerkStatsCount(r) ==
    /\ reqs[r].pc = "pending"
    /\ Finish(r, [Reply("clerkStats", 200, "") EXCEPT
                    !.data = reqs[r].data,
                    !.count = <<Cardinality({i \in 1..Len(transactions) :
                                                transactions[i].status = "pending"})>>])
    /\ UNCHANGED <<products, transactions, notifications, users, stockWrites, audits>>

\* GET /admin/stats, first await: Product.countDocuments().
AdminStatsTotal(r) ==
    /\ Admit(r)
    /\ reqs' = [reqs EXCEPT ![r] =
            [IdleReq EXCEPT !.pc = "lowStockItems", !.op = "adminStats",
                !.data = <<[totalProducts |-> Cardinality(DOMAIN products)]>>]]
    /\ response' = NoResponse
    /\ UNCHANGED <<products, transactions, notifications, users, stockWrites, audits>>

\* GET /admin/stats, second await: Product.countDocuments by status.
AdminStatsLowStock(r) ==
    /\ reqs[r].pc = "lowStockItems"
    /\ reqs' = [reqs EXCEPT ![r].pc = "activeUsers",
                            ![r].data = <<[totalProducts |-> @[1].totalProducts,
                                lowStockItems |-> Cardinality(StatusBasedView(products))]>>]
    /\ response' = NoResponse
    /\ UNCHANGED <<products, transactions, notifications, users, stockWrites, audits>>

\* GET /admin/stats, third await: User.countDocuments().
AdminStatsUsers(r) ==
    /\ reqs[r].pc = "activeUsers"
    /\ reqs' = [reqs EXCEPT ![r].pc = "totalValue",
                            ![r].data = <<[totalProducts |-> @[1].totalProducts,
                                lowStockItems |-> @[1].lowStockItems,
                                activeUsers |-> Cardinality(DOMAIN users)]>>]
    /\ response' = NoResponse
    /\ UNCHANGED <<products, transactions, notifications, users, stockWrites, audits>>

\* product.stock * product.price
Value(p) == p.stock * Val(p.price)

\* GET /admin/stats, fourth await: Product.find() for the inventory value
\* (Math.round(totalValue * 100) / 100 over whole prices), then the answer.
AdminStatsValue(r) ==
    /\ reqs[r].pc = "totalValue"
    /\ LET totalValue == SumOf(DOMAIN products, LAMBDA id : Value(products[id]))
       IN  Finish(r, [Reply("adminStats", 200, "") EXCEPT
                    !.data = <<[totalProducts |-> reqs[r].data[1].totalProducts,
                                lowStockItems |-> reqs[r].data[1].lowStockItems,
                                activeUsers |-> reqs[r].data[1].activeUsers,
                                totalValue |-> (totalValue * 100) \div 100]>>])
    /\ UNCHANGED <<products, transactions, notifications, users, stockWrites, audits>>

(***************************************************************************)
(* The low-stock report: two products created and updated with any          *)
(* threshold, and the lowStock report over them.                           *)
(***************************************************************************)
LowSkus == {"X1", "X2"}
LowThresholds == {0 - 1, 1}
LowStocks == {0, 1, MaxStock}

LowCreateStep ==
    \E r \in Reqs, sku \in LowSkus, stock \in LowStocks, th \in LowThresholds :
        CreateProductBegin(r, sku, <<stock>>, <<th>>, <<1>>)
LowUpdateStep ==
    \E r \in Reqs, id \in DOMAIN products, stock \in Opt(LowStocks), th \in Opt(LowThresholds) :
        UpdateProduct(r, id, stock, th, << >>)
LowReportStep == \E r \in Reqs : GenerateReport(r, <<"lowStock">>)

NextLowStock ==
    \/ LowCreateStep
    \/ InsertStep
    \/ LowUpdateStep
    \/ LowReportStep

SpecLowStock == Init /\ [][NextLowStock]_vars

(***************************************************************************)
(* The low-stock views: products created and updated, read by the clerk's  *)
(* and the product controller's lists and by the two dashboards.           *)
(***************************************************************************)
ViewStocks == {0, MaxStock}

ViewCreateStep ==
    \E r \in Reqs, sku \in LowSkus, stock \in ViewStocks :
        CreateProductBegin(r, sku, <<stock>>, <<1>>, <<1>>)
ViewUpdateStep ==
    \E r \in Reqs, id \in DOMAIN products, stock \in ViewStocks :
        UpdateProduct(r, id, <<stock>>, << >>, << >>)
ClerkListStep == \E r \in Reqs : ClerkGetLowStockProducts(r)
ProductListStep == \E r \in Reqs : GetLowStockProducts(r)
ClerkStatsStep == \E r \in Reqs : ClerkStatsFind(r)
ClerkStatsCountStep == \E r \in Reqs : ClerkStatsCount(r)
AdminStatsStep == \E r \in Reqs : AdminStatsTotal(r)
AdminStatsLowStep == \E r \in Reqs : AdminStatsLowStock(r)
AdminStatsUsersStep == \E r \in Reqs : AdminStatsUsers(r)
AdminStatsValueStep == \E r \in Reqs : AdminStatsValue(r)

NextViews ==
    \/ ViewCreateStep
    \/ InsertStep
    \/ ViewUpdateStep
    \/ ClerkListStep
    \/ ProductListStep
    \/ ClerkStatsStep
    \/ ClerkStatsCountStep
    \/ AdminStatsStep
    \/ AdminStatsLowStep
    \/ AdminStatsUsersStep
    \/ AdminStatsValueStep

SpecViews == Init /\ [][NextViews]_vars

(***************************************************************************)
(* The catalogue: products of two SKUs, written with and without blanks    *)
(* around them, created by interleaving requests, updated and deleted.     *)
(***************************************************************************)
SkuInputs == {"X1", " X1", "X2"}

SkuCreateStep ==
    \E r \in Reqs, sku \in SkuInputs, stock \in {<<0>>, <<1>>} :
        CreateProductBegin(r, sku, stock, <<1>>, <<1>>)
SkuUpdateStep ==
    \E r \in Reqs, id \in ProductIds, stock \in Opt({0, MaxStock}) :
        UpdateProduct(r, id, stock, << >>, << >>)

NextSkus ==
    \/ SkuCreateStep
    \/ InsertStep
    \/ SkuUpdateStep
    \/ DeleteStep

SpecSkus == Init /\ [][NextSkus]_vars

(***************************************************************************)
(* The ledger run one request at a time: one product created with the      *)
(* default stock, then stockIn and stockOut requests, each admitted when   *)
(* the one before has returned; Transaction.create may reject.             *)
(***************************************************************************)
Quiet == \A r \in Reqs : reqs[r].pc = "idle"

SeqCreateStep ==
    /\ Quiet
    /\ \E r \in Reqs, sku \in Skus, th \in Opt(ThresholdInputs) :
            CreateProductBegin(r, sku, << >>, th, <<1>>)
SeqStockStep ==
    /\ Quiet
    /\ \E r \in Reqs, op \in StockOps, id \in DOMAIN products, q \in GoodQtys :
            StockBegin(r, op, <<id>>, q)

NextSequential ==
    \/ SeqCreateStep
    \/ InsertStep
    \/ SeqStockStep
    \/ SaveStep
    \/ TxStep
    \/ TxFailStep
    \/ ClerksStep
    \/ NotifyStep

SpecSequential == Init /\ [][NextSequential]_vars

(***************************************************************************)
(* Properties                                                              *)
(***************************************************************************)
\* The derivation rule of the data model, stated on its own.
DerivedStatus(stock, threshold) ==
    CASE stock = 0 -> "out-of-stock"
      [] stock # 0 /\ stock <= threshold -> "low-stock"
      [] OTHER -> "in-stock"

Derived(d) == d.status = DerivedStatus(d.stock, d.lowStockThreshold)

\* Steps of request r, seen from outside.
Saves(r) == reqs[r].pc = "save" /\ reqs'[r].pc = "tx"
Inserts(r) == reqs[r].pc = "insert" /\ reqs'[r].pc = "idle" /\ response'.code = 201
Logs(r) == reqs[r].pc = "tx" /\ reqs'[r].pc # "tx" /\ transactions' # transactions
Begins(r) == reqs[r].pc = "idle" /\ reqs'[r].pc = "save"

C2_StoredStatusDerived == \A p \in DOMAIN products : Derived(products[p])

AnsweredAtOnce == response'.op \in StockOps /\ reqs' = reqs /\ response' # response

\* C4: a stockOut asking for more than the stock it reads is answered with an
\* error that carries available = that stock and requested = the quantity;
\* the product and the Transaction log stay as they were, and only such a
\* stockOut gets that answer.
C4_StockOutInsufficient ==
    [][/\ (AnsweredAtOnce /\ response'.error = "InsufficientStock") =>
            /\ response'.op = "stockOut"
            /\ response'.code = 400
            /\ Val(response'.productId) \in DOMAIN products
            /\ response'.available = <<products[Val(response'.productId)].stock>>
            /\ response'.requested = response'.quantity
            /\ Val(response'.quantity) > products[Val(response'.productId)].stock
            /\ products' = products
            /\ transactions' = transactions
       /\ \A r \in Reqs :
            (Begins(r) /\ reqs'[r].op = "stockOut") =>
                reqs'[r].quantity <= products[reqs'[r].productId].stock]_vars

\* A stockOut of 2 on a product holding 1 was just refused.
C4_Witness ==
    /\ response.error = "InsufficientStock"
    /\ response.available = <<1>>
    /\ response.requested = <<2>>
    /\ products[Val(response.productId)].stock = 1
    /\ transactions = << >>

\* C5: the stock of every stored product is >= 0 in every reachable state.
C5_StockNonNegative == \A p \in DOMAIN products : products[p].stock >= 0

\* Two stockOut requests on the same product are in flight, each taking the
\* whole stock it read, and the first has already written 0.
C5_Witness ==
    \E r1, r2 \in Reqs :
        /\ r1 # r2
        /\ reqs[r1].op = "stockOut" /\ reqs[r1].pc = "tx"
        /\ reqs[r2].op = "stockOut" /\ reqs[r2].pc = "save"
        /\ reqs[r1].productId = reqs[r2].productId
        /\ reqs[r1].newStock = 0
        /\ reqs[r2].newStock = 0
        /\ products[reqs[r1].productId].stock = 0

C7_StockMatchesAtCreation ==
    [][\A r \in Reqs :
          Logs(r) =>
              products[reqs[r].productId].stock
                    = transactions'[Len(transactions')].newStock]_vars

\* C8: when two stockOut requests on one product have read the same stock and
\* the first has saved, the save of the second goes through and stores its
\* own previousStock - quantity: the stock then differs from the stock both
\* read minus the two quantities, and both Transactions get recorded.
C8_LostUpdate ==
    [][\A r1, r2 \in Reqs :
          ( /\ r1 # r2
            /\ reqs[r1].op = "stockOut" /\ reqs[r1].pc = "tx"
            /\ reqs[r2].op = "stockOut" /\ reqs[r2].pc = "save"
            /\ reqs[r1].productId = reqs[r2].productId
            /\ reqs[r1].previousStock = reqs[r2].previousStock
            /\ reqs'[r2] # reqs[r2] ) =>
                /\ Saves(r2)
                /\ products'[reqs[r2].productId].stock
                        = reqs[r2].previousStock - reqs[r2].quantity
                /\ products'[reqs[r2].productId].stock
                        # reqs[r2].previousStock - (reqs[r1].quantity + reqs[r2].quantity)]_vars

\* Both stockOut requests were answered; the log holds their two completed
\* Transactions with the same previousStock, and the stock is not that
\* previousStock minus the two quantities.
C8_Witness ==
    /\ Len(transactions) = 2
    /\ \A r \in Reqs : reqs[r].pc = "idle"
    /\ response.op = "stockOut" /\ response.code = 200
    /\ LET a == transactions[1]
           b == transactions[2]
       IN  /\ a.type = "out" /\ b.type = "out"
           /\ a.status = "completed" /\ b.status = "completed"
           /\ a.product = b.product
           /\ a.previousStock = b.previousStock
           /\ products[a.product].stock # a.previousStock - (a.quantity + b.quantity)
           /\ products[a.product].stock \in {a.newStock, b.newStock}

NumTx(p) == Cardinality({i \in 1..Len(transactions) : transactions[i].product = p})

\* Stock writes that no Transaction records and no request is about to record.
Unlogged(p) ==
    stockWrites[p] - NumTx(p)
        - Cardinality({r \in Reqs : reqs[r].pc = "tx" /\ reqs[r].productId = p})

\* A stock request fails after its save and before its Transaction.
FailsBetween(r) == reqs[r].pc = "tx" /\ reqs'[r].pc = "idle" /\ response'.code = 500

\* C9: stockIn and stockOut write the Product before they append the
\* Transaction: the log never holds more Transactions of a product than stock
\* writes were persisted for it, and a request that stops between the two
\* steps leaves the stock written and the log without an entry, for good.
C9_WriteBeforeLog ==
    [][/\ \A p \in ProductIds :
            /\ NumTx(p) <= stockWrites[p]
            /\ NumTx(p)' <= stockWrites'[p]
            /\ Unlogged(p) >= 0
            /\ Unlogged(p)' >= Unlogged(p)
       /\ \A r \in Reqs :
            /\ Logs(r) =>
                /\ products' = products
                /\ NumTx(reqs[r].productId) < stockWrites[reqs[r].productId]
            /\ FailsBetween(r) =>
                /\ products' = products
                /\ transactions' = transactions
                /\ stockWrites' = stockWrites
                /\ \A p \in ProductIds :
                        p = reqs[r].productId => Unlogged(p)' = Unlogged(p) + 1]_vars

\* A stockIn stopped between its two steps: the stock is written, the log is
\* empty and no request is left to fill it.
C9_Witness ==
    /\ response.op = "stockIn" /\ response.code = 500
    /\ \A r \in Reqs : reqs[r].pc = "idle"
    /\ transactions = << >>
    /\ \E p \in DOMAIN products : stockWrites[p] = 1 /\ products[p].stock > 0

\* The request bodies the ledger refuses, stated on their own.
Malformed(productId, quantity) ==
    productId = << >> \/ quantity = << >> \/ quantity[1] < 1

\* C10: stockIn and stockOut answer 400 (validation) to a body without
\* productId or with a quantity that is missing or <= 0, whether or not the
\* product exists, and 404 to a well-formed body whose productId matches no
\* Product; in both cases no Product, Transaction or Notification changes,
\* and only well-formed requests on existing products go on.
C10_Rejections ==
    [][/\ AnsweredAtOnce =>
            LET b == response'
            IN  /\ Malformed(b.productId, b.quantity)
                    <=> (b.code = 400 /\ b.error = "ValidationError")
                /\ (~Malformed(b.productId, b.quantity)
                        /\ b.productId[1] \notin DOMAIN products)
                    <=> (b.code = 404 /\ b.error = "NotFound")
                /\ b.error \in {"ValidationError", "NotFound"} =>
                    /\ products' = products
                    /\ transactions' = transactions
                    /\ notifications' = notifications
       /\ \A r \in Reqs :
            Begins(r) =>
                /\ reqs'[r].quantity >= 1
                /\ reqs'[r].productId \in DOMAIN products
                /\ products' = products
                /\ transactions' = transactions
                /\ notifications' = notifications]_vars

\* A body with a negative quantity and an unknown productId was answered 400
\* while a product, a Transaction and a Notification exist.
C10_Witness ==
    /\ response.error = "ValidationError"
    /\ response.productId # << >>
    /\ response.productId[1] \notin DOMAIN products
    /\ response.quantity # << >>
    /\ response.quantity[1] < 0
    /\ DOMAIN products # {}
    /\ transactions # << >>
    /\ notifications # << >>

\* The sequence a is the beginning of the sequence b.
Prefix(a, b) == Len(a) <= Len(b) /\ SubSeq(b, 1, Len(a)) = a

\* Steps of the fan-out of request r, seen from outside.
Finds(r, pc) == reqs[r].pc = pc /\ reqs'[r].pc = "notify"
FindsNone(r, pc) == reqs[r].pc = pc /\ reqs'[r].pc = "idle" /\ response'.code = 200
SendsOn(r) == reqs[r].pc = "notify" /\ reqs'[r].pc = "notify" /\ reqs'[r].sent # reqs[r].sent
SendsLast(r) == reqs[r].pc = "notify" /\ reqs'[r].pc = "idle" /\ response'.code = 200
SendFails(r) ==
    reqs[r].pc = "notify" /\ ~reqs[r].answered /\ reqs'[r] # reqs[r] /\ response'.code = 500

\* The step adds exactly one Notification, of this type, for this recipient
\* and this product.
AddsOne(recipient, type, product) ==
    /\ Len(notifications') = Len(notifications) + 1
    /\ Prefix(notifications, notifications')
    /\ LET n == notifications'[Len(notifications')]
       IN  /\ n.recipient = recipient
           /\ n.type = type
           /\ n.relatedProduct = <<product>>
           /\ n.isRead = FALSE

\* The fan-out of request r, of Notifications of one type to the users of
\* one role: the recipients are the users holding the role when the users
\* are read, each send adds one Notification for a recipient not served
\* yet, and the request answers 200 with the send for the last of them.
FansOut(r, pc, role, type) ==
    /\ Finds(r, pc) =>
            /\ reqs'[r].found = {u \in UserIds : users[u] = role}
            /\ reqs'[r].pending = reqs'[r].found
            /\ reqs'[r].sent = {}
            /\ notifications' = notifications
    /\ FindsNone(r, pc) =>
            /\ {u \in UserIds : users[u] = role} = {}
            /\ notifications' = notifications
    /\ SendsOn(r) =>
            \E u \in reqs[r].found \ reqs[r].sent :
                /\ reqs'[r].sent = reqs[r].sent \cup {u}
                /\ reqs'[r].found = reqs[r].found
                /\ AddsOne(u, type, reqs[r].productId)
    /\ SendsLast(r) =>
            \E u \in reqs[r].found \ reqs[r].sent :
                /\ reqs[r].sent \cup {u} = reqs[r].found
                /\ AddsOne(u, type, reqs[r].productId)

\* C11: a stockIn that goes through creates exactly one restock Notification
\* for each user that holds the role clerk when it reads the users, and none
\* for a user of another role; no step of a stockOut creates a Notification.
C11_RestockToClerks ==
    [][\A r \in Reqs :
          /\ reqs[r].op = "stockIn" => FansOut(r, "clerks", "clerk", "restock")
          /\ ((reqs[r].op = "stockIn" \/ reqs'[r].op = "stockIn") /\ reqs'[r] # reqs[r]
                    /\ reqs[r].pc # "notify") => notifications' = notifications
          /\ ((reqs[r].op = "stockOut" \/ reqs'[r].op = "stockOut") /\ reqs'[r] # reqs[r]) =>
                notifications' = notifications
          /\ (response'.op = "stockOut" /\ response' # response) =>
                notifications' = notifications]_vars

\* A stockIn was answered 200 after both users, clerks when it read them,
\* got their restock Notification, and a stockOut was logged without one.
C11_Witness ==
    /\ response.op = "stockIn" /\ response.code = 200
    /\ Len(notifications) = 2
    /\ {notifications[i].recipient : i \in 1..2} = UserIds
    /\ \A i \in 1..2 : notifications[i].type = "restock"
    /\ \E i \in 1..Len(transactions) : transactions[i].type = "out"

\* C12: a requestReorder that goes through creates exactly one reorder
\* Notification for each user that holds the role manager when it reads the
\* users (none when there is no manager, and it still answers 200), answers
\* notificationsSent = the number of these users, and no step of it changes
\* a Product or a Transaction.
C12_ReorderToManagers ==
    [][\A r \in Reqs :
          /\ reqs[r].op = "requestReorder" =>
                /\ FansOut(r, "managers", "manager", "reorder")
                /\ FindsNone(r, "managers") => response'.notificationsSent = <<0>>
                /\ SendsLast(r) =>
                        response'.notificationsSent = <<Cardinality(reqs[r].found)>>
          /\ ((reqs[r].op = "requestReorder" \/ reqs'[r].op = "requestReorder")
                    /\ reqs'[r] # reqs[r]) =>
                /\ products' = products
                /\ transactions' = transactions
                /\ reqs[r].pc # "notify" => notifications' = notifications
          /\ (response'.op = "requestReorder" /\ response' # response) =>
                /\ products' = products
                /\ transactions' = transactions
                /\ response'.code = 200 => response'.notificationsSent # << >>]_vars

\* A requestReorder found two managers and was answered notificationsSent = 2
\* with two reorder Notifications stored, one for each.
C12_Witness ==
    /\ response.op = "requestReorder" /\ response.code = 200
    /\ response.notificationsSent = <<2>>
    /\ Len(notifications) = 2
    /\ {notifications[i].recipient : i \in 1..2} = UserIds
    /\ \A i \in 1..2 : notifications[i].type = "reorder"

\* C13: when the write of one recipient's Notification fails in the fan-out
\* of stockIn, the request answers 500 and the step undoes nothing: the
\* stock written, the Transaction appended and the Notifications written
\* for other recipients are as before, and no later step takes them back.
C13_NoRollback ==
    [][/\ \A r \in Reqs :
            (reqs[r].op = "stockIn" /\ SendFails(r)) =>
                /\ response'.op = "stockIn"
                /\ products' = products
                /\ transactions' = transactions
                /\ notifications' = notifications
                /\ stockWrites[reqs[r].productId] >= 1
                /\ \E i \in 1..Len(transactions) :
                        /\ transactions[i].product = reqs[r].productId
                        /\ transactions[i].type = "in"
                        /\ transactions[i].newStock = reqs[r].newStock
       /\ Prefix(transactions, transactions')
       /\ Prefix(notifications, notifications')
       /\ products' # products => \E r \in Reqs : Saves(r) \/ Inserts(r)]_vars

\* A stockIn was answered 500 for the failed Notification of one clerk: the
\* stock it wrote, its Transaction and the other clerk's Notification are
\* stored.
C13_Witness ==
    /\ response.op = "stockIn" /\ response.code = 500
    /\ Len(transactions) = 1
    /\ transactions[1].type = "in"
    /\ products[transactions[1].product].stock = transactions[1].newStock
    /\ Len(notifications) = 1
    /\ notifications[1].type = "restock"
    /\ \A r \in Reqs : reqs[r].pc = "idle"

\* Steps of a createNewAudit request r, seen from outside.
Scans(r) == reqs[r].pc = "idle" /\ reqs'[r].pc = "audit"
AnswersAudit(r) == reqs[r].pc = "audit" /\ reqs'[r].pc = "idle"

\* The findings a list of audit results holds for product p.
FindingsFor(results, p) ==
    LET at == {i \in 1..Len(results) : results[i].productId = p}
    IN  IF at = {} THEN << >> ELSE results[CHOOSE i \in at : TRUE].discrepancies

TypesOf(findings) == {findings[i].type : i \in 1..Len(findings)}

\* C14: createNewAudit, run while a Product has stock 0 and the stored
\* status in-stock, answers with exactly one finding for that product, of
\* type status_mismatch and severity medium.
C14_ExactlyOneFinding ==
    [][\A r \in Reqs :
          AnswersAudit(r) =>
              \A i \in 1..Len(reqs[r].auditResults) :
                  LET e == reqs[r].auditResults[i]
                  IN  (e.currentStock = 0 /\ e.status = "in-stock") =>
                          /\ response'.op = "createNewAudit"
                          /\ response'.code = 200
                          /\ FindingsFor(response'.auditResults, e.productId)
                                = <<[type |-> "status_mismatch", severity |-> "medium"]>>]_vars

\* The severity the audit gives to each type of finding.
SeverityOf(type) ==
    CASE type = "negative_stock" -> "high"
      [] type = "status_mismatch" -> "medium"
      [] type = "low_stock_mismatch" -> "low"
      [] type = "invalid_price" -> "medium"
      [] OTHER -> ""

\* C15: the scan of createNewAudit evaluates four checks on every Product,
\* each on its own: negative_stock (high) iff stock < 0, status_mismatch
\* (medium) iff stock = 0 and status is not out-of-stock, low_stock_mismatch
\* (low) iff 0 < stock <= threshold and status is neither low-stock nor
\* out-of-stock, invalid_price (medium) iff the price is missing or <= 0.
\* The findings of a product are exactly the checks that hold, each once,
\* and the results have one entry for each product with a finding.
C15_FourChecks ==
    [][\A r \in Reqs :
          Scans(r) =>
              LET res == reqs'[r].auditResults
              IN  /\ \A p \in DOMAIN products :
                        LET d == products[p]
                            f == FindingsFor(res, p)
                        IN  /\ "negative_stock" \in TypesOf(f) <=> d.stock < 0
                            /\ "status_mismatch" \in TypesOf(f)
                                    <=> (d.stock = 0 /\ d.status # "out-of-stock")
                            /\ "low_stock_mismatch" \in TypesOf(f)
                                    <=> ( /\ 0 < d.stock
                                          /\ d.stock <= d.lowStockThreshold
                                          /\ d.status \notin {"low-stock", "out-of-stock"} )
                            /\ "invalid_price" \in TypesOf(f)
                                    <=> (d.price = << >> \/ d.price[1] <= 0)
                            /\ Len(f) = Cardinality(TypesOf(f))
                            /\ \A i \in 1..Len(f) :
                                    /\ SeverityOf(f[i].type) # ""
                                    /\ f[i].severity = SeverityOf(f[i].type)
                  /\ \A i \in 1..Len(res) :
                        /\ res[i].productId \in DOMAIN products
                        /\ res[i].discrepancies # << >>
                        /\ res[i].currentStock = products[res[i].productId].stock
                        /\ res[i].status = products[res[i].productId].status
                        /\ \A j \in 1..Len(res) : res[j].productId = res[i].productId => j = i]_vars

\* A scan found, for a product in-stock with stock -1 and a good price,
\* negative_stock alone, and for another product two findings at once.
C15_Witness ==
    \E r \in Reqs :
        /\ reqs[r].pc = "audit"
        /\ Len(reqs[r].auditResults) = 2
        /\ \E p \in DOMAIN products :
                /\ products[p].stock < 0
                /\ products[p].status = "in-stock"
                /\ products[p].price = <<1>>
                /\ FindingsFor(reqs[r].auditResults, p)
                        = <<[type |-> "negative_stock", severity |-> "high"]>>
        /\ \E p \in DOMAIN products :
                TypesOf(FindingsFor(reqs[r].auditResults, p))
                    = {"low_stock_mismatch", "invalid_price"}

\* C16: for every Product whose stored status is not the status derived from
\* its stock and threshold when createNewAudit scans, the scan holds a
\* finding for that product, and the Audit that createNewAudit persists
\* holds the findings of the scan about status.
C16_DeviationsFlagged ==
    [][\A r \in Reqs :
          /\ Scans(r) =>
                \A p \in DOMAIN products :
                    ~Derived(products[p]) => FindingsFor(reqs'[r].auditResults, p) # << >>
          /\ AnswersAudit(r) =>
                \A i \in 1..Len(reqs[r].auditResults) :
                    LET e == reqs[r].auditResults[i]
                    IN  TypesOf(e.discrepancies)
                            \cap {"status_mismatch", "low_stock_mismatch"} # {} =>
                            /\ Len(audits') = Len(audits) + 1
                            /\ FindingsFor(audits'[Len(audits')].discrepancyDetails,
                                           e.productId) = e.discrepancies]_vars

\* Steps of the auditor's requests, seen from outside.
AnswersAtOnce(op) == response'.op = op /\ response' # response /\ reqs' = reqs
BeginsCompletion(r) == reqs[r].pc = "idle" /\ reqs'[r].pc = "complete"
Completes(r) == reqs[r].pc = "complete" /\ reqs'[r].pc = "idle"

C18_OneWayStatus ==
    [][/\ \A i \in 1..Len(audits') :
            i > Len(audits) => audits'[i].status \in {"scheduled", "in-progress"}
       /\ \A i \in 1..Len(audits) :
            /\ i <= Len(audits')
            /\ audits'[i].status # audits[i].status =>
                    <<audits[i].status, audits'[i].status>>
                        \in {<<"scheduled", "in-progress">>, <<"in-progress", "completed">>}]_vars

\* The body of a scheduleAudit request lacks its title or its date.
MissingTitleOrDate(title, date) ==
    title = << >> \/ title[1] = "" \/ date = << >> \/ date[1] = ""

\* C19: a scheduleAudit that goes through creates one Audit with the status
\* scheduled, 0 discrepancies and no discrepancy details, whatever the
\* Products are; without a title or a date it answers 400 (validation) and
\* creates nothing; in no case does it create anything else or change a
\* Product.
C19_ScheduleDoesNotScan ==
    [][AnswersAtOnce("scheduleAudit") =>
            /\ products' = products
            /\ MissingTitleOrDate(response'.title, response'.date)
                    <=> (response'.code = 400 /\ response'.error = "ValidationError")
            /\ response'.code # 201 => audits' = audits
            /\ response'.code = 201 =>
                    /\ Len(audits') = Len(audits) + 1
                    /\ Prefix(audits, audits')
                    /\ LET a == audits'[Len(audits')]
                       IN  /\ a.status = "scheduled"
                           /\ a.discrepancies = 0
                           /\ a.discrepancyDetails = << >>
                           /\ <<a.title>> = response'.title
                           /\ <<a.date>> = response'.date
                    /\ response'.auditId = <<Len(audits')>>]_vars

\* An Audit was just scheduled with 0 discrepancies while the one Product
\* has stock 0, the status in-stock and the price 0.
C19_Witness ==
    /\ response.op = "scheduleAudit"
    /\ response.code = 201
    /\ audits[response.auditId[1]].status = "scheduled"
    /\ audits[response.auditId[1]].discrepancies = 0
    /\ \E p \in DOMAIN products :
            /\ products[p].stock = 0
            /\ products[p].status = "in-stock"
            /\ products[p].price = <<0>>

\* C20: the step of completeAudit that completes an Audit sets its status
\* to completed and changes nothing else: the discrepancies and the
\* discrepancy details are those stored at creation, whatever became of the
\* Products since, and no Product changes.
C20_CompleteFlipsStatusOnly ==
    [][\A r \in Reqs :
          Completes(r) =>
              LET id == reqs[r].auditId
              IN  /\ response'.op = "completeAudit"
                  /\ response'.code = 200
                  /\ Len(audits') = Len(audits)
                  /\ audits'[id].status = "completed"
                  /\ audits'[id].discrepancies = audits[id].discrepancies
                  /\ audits'[id].discrepancyDetails = audits[id].discrepancyDetails
                  /\ audits'[id].title = audits[id].title
                  /\ audits'[id].date = audits[id].date
                  /\ \A i \in 1..Len(audits) : i # id => audits'[i] = audits[i]
                  /\ products' = products]_vars

\* An Audit made by createNewAudit when no Product had a finding was just
\* completed, with its 0 discrepancies, while a Product now has stock 0 and
\* the status in-stock.
C20_Witness ==
    /\ response.op = "completeAudit"
    /\ response.code = 200
    /\ LET a == audits[response.auditId[1]]
       IN  /\ a.status = "completed"
           /\ a.title = "Inventory Audit"
           /\ a.discrepancies = 0
           /\ a.discrepancyDetails = << >>
    /\ \E p \in DOMAIN products :
            products[p].stock = 0 /\ products[p].status = "in-stock"

\* Steps of the notification endpoints, seen from outside.
Marks(r) == reqs[r].pc = "read" /\ reqs'[r].pc = "idle"
MarksAll == response'.op = "markAllAsRead" /\ response' # response /\ reqs' = reqs

\* The Notification n with its isRead flag left out of the comparison.
Content(n) == [n EXCEPT !.isRead = TRUE]

\* C21: a Notification, once created, keeps its recipient, sender, message,
\* type, relatedProduct and metadata and is never removed; its isRead flag
\* only goes from false to true.  markAsRead on a Notification already read
\* and markAllAsRead for a caller without unread Notifications change
\* nothing, and after either of them a second application would change
\* nothing.
C21_OnlyIsReadFlips ==
    [][/\ Len(notifications') >= Len(notifications)
       /\ \A i \in 1..Len(notifications) :
            /\ Content(notifications'[i]) = Content(notifications[i])
            /\ notifications[i].isRead => notifications'[i].isRead
       /\ \A r \in Reqs :
            Marks(r) =>
                /\ notifications'[reqs[r].id].isRead
                /\ notifications[reqs[r].id].isRead => notifications' = notifications
       /\ MarksAll =>
            /\ \A i \in 1..Len(notifications') :
                    AddressedTo(response'.user, notifications'[i]) => notifications'[i].isRead
            /\ (\A i \in 1..Len(notifications) :
                    AddressedTo(response'.user, notifications[i]) => notifications[i].isRead)
                => notifications' = notifications]_vars

\* A markAllAsRead found nothing left to mark (modifiedCount 0) for a user
\* whose Notification is read, while an unread Notification of another
\* recipient is stored.
C21_Witness ==
    /\ response.op = "markAllAsRead"
    /\ response.count = <<0>>
    /\ \E i \in 1..Len(notifications) :
            notifications[i].recipient = response.user /\ notifications[i].isRead
    /\ \E i \in 1..Len(notifications) :
            notifications[i].recipient # response.user /\ ~notifications[i].isRead

\* Steps of the read endpoints, seen from outside.
Lists(r) == reqs[r].pc = "idle" /\ reqs'[r].pc = "count"
Counts(r) == reqs[r].pc = "count" /\ reqs'[r].pc = "idle"
CountsAtOnce == response'.op = "getUnreadCount" /\ response' # response /\ reqs' = reqs

\* The Notifications an operation of this caller may touch: all of them for
\* the admin, the caller's own for anyone else.
InScope(user, n) == user = "admin-hardcoded" \/ n.recipient = user

UnreadInScope(user, all) ==
    Cardinality({i \in 1..Len(all) : InScope(user, all[i]) /\ ~all[i].isRead})

\* C22: getNotifications lists, getUnreadCount counts and markAllAsRead
\* marks only Notifications addressed to the caller, and all Notifications
\* when the caller is the admin sentinel: markAllAsRead marks every unread
\* Notification in scope and leaves every other one as it was, so that the
\* unread count of the caller is 0 right after it; getUnreadCount answers
\* the number of unread Notifications in scope; getNotifications lists
\* Notifications in scope only, newest first, and all of those that pass
\* its filters when the limit is not reached.
C22_RecipientScope ==
    [][/\ MarksAll =>
            LET u == response'.user
            IN  /\ Len(notifications') = Len(notifications)
                /\ \A i \in 1..Len(notifications) :
                        notifications'[i] =
                            IF InScope(u, notifications[i])
                            THEN [notifications[i] EXCEPT !.isRead = TRUE]
                            ELSE notifications[i]
                /\ UnreadInScope(u, notifications') = 0
                /\ response'.count = <<UnreadInScope(u, notifications)>>
       /\ CountsAtOnce =>
            /\ response'.count = <<UnreadInScope(response'.user, notifications)>>
            /\ notifications' = notifications
       /\ \A r \in Reqs :
            /\ Lists(r) =>
                LET u == reqs'[r].user
                    data == reqs'[r].data
                    q == reqs'[r].query
                    passes(n) ==
                        /\ InScope(u, n)
                        /\ q[1] # << >> => n.isRead = (q[1][1] = "true")
                    limit == IF q[3] = << >> THEN 50 ELSE q[3][1]
                IN  /\ notifications' = notifications
                    /\ \A j \in 1..Len(data) :
                            /\ data[j] \in 1..Len(notifications)
                            /\ passes(notifications[data[j]])
                            /\ \A k \in 1..Len(data) : j < k => data[j] > data[k]
                    /\ Len(data) <= limit
                    /\ Len(data) < limit =>
                            \A i \in 1..Len(notifications) :
                                passes(notifications[i]) => \E j \in 1..Len(data) : data[j] = i
            /\ Counts(r) =>
                /\ response'.count = <<UnreadInScope(reqs[r].user, notifications)>>
                /\ response'.data = reqs[r].data
                /\ notifications' = notifications]_vars

\* A markAllAsRead of a user who is not the admin marked one Notification
\* and left the unread Notification of another recipient unread.
C22_Witness ==
    /\ response.op = "markAllAsRead"
    /\ response.user # "admin-hardcoded"
    /\ response.count = <<1>>
    /\ \E i \in 1..Len(notifications) :
            notifications[i].recipient = response.user /\ notifications[i].isRead
    /\ \E i \in 1..Len(notifications) :
            notifications[i].recipient # response.user /\ ~notifications[i].isRead

BeginsMark(r) == reqs[r].pc = "idle" /\ reqs'[r].pc = "read"

\* C30: the markAsRead endpoint answers 404 exactly when no Notification has
\* the id and 403 exactly when the Notification exists and the caller is
\* neither its recipient nor the admin sentinel, and changes nothing in both
\* cases; it goes on to its update only for the recipient or the admin, and
\* that update sets the isRead of this one Notification.
C30_MarkAsReadGuard ==
    [][/\ AnswersAtOnce("markAsRead") =>
            LET id == response'.id[1]
                u == response'.user
                known == id \in 1..Len(notifications)
            IN  /\ ~known <=> (response'.code = 404 /\ response'.error = "NotFound")
                /\ (known /\ u # "admin-hardcoded" /\ notifications[id].recipient # u)
                        <=> (response'.code = 403 /\ response'.error = "Forbidden")
                /\ response'.code \in {403, 404}
                /\ notifications' = notifications
       /\ \A r \in Reqs :
            /\ BeginsMark(r) =>
                /\ reqs'[r].id \in 1..Len(notifications)
                /\ \/ reqs'[r].user = "admin-hardcoded"
                   \/ notifications[reqs'[r].id].recipient = reqs'[r].user
                /\ notifications' = notifications
            /\ Marks(r) =>
                /\ \/ reqs[r].user = "admin-hardcoded"
                   \/ notifications[reqs[r].id].recipient = reqs[r].user
                /\ response'.op = "markAsRead" /\ response'.code = 200
                /\ notifications' = [notifications EXCEPT ![reqs[r].id].isRead = TRUE]]_vars

\* A user who is neither the recipient nor the admin was just refused (403)
\* and the Notification is still unread.
C30_Witness ==
    /\ response.op = "markAsRead"
    /\ response.code = 403
    /\ response.user \in UserIds
    /\ notifications[response.id[1]].recipient # response.user
    /\ ~notifications[response.id[1]].isRead

\* The Transaction t with its status left out of the comparison.
Ledger(t) == [t EXCEPT !.status = ""]

\* C23: no step removes a Transaction or changes the product, type,
\* quantity, previousStock or newStock of one; the status of a Transaction
\* changes only in a step of updateOrderStatus on its id, to the status of
\* the request, one of pending, completed and rejected.  updateOrderStatus
\* answers 400 exactly to a status outside these and 404 exactly to a good
\* status with an id that no Transaction has, changing nothing, and never
\* changes a Product.
C23_OnlyStatusChanges ==
    [][/\ Len(transactions') >= Len(transactions)
       /\ \A i \in 1..Len(transactions) :
            /\ Ledger(transactions'[i]) = Ledger(transactions[i])
            /\ transactions'[i].status # transactions[i].status =>
                    /\ response'.op = "updateOrderStatus"
                    /\ response'.id = <<i>>
                    /\ response'.status = <<transactions'[i].status>>
                    /\ transactions'[i].status \in {"pending", "completed", "rejected"}
       /\ AnswersAtOnce("updateOrderStatus") =>
            LET id == response'.id[1]
                good == /\ response'.status # << >>
                        /\ response'.status[1] \in {"pending", "completed", "rejected"}
                known == id \in 1..Len(transactions)
            IN  /\ products' = products
                /\ ~good <=> (response'.code = 400 /\ response'.error = "ValidationError")
                /\ (good /\ ~known) <=> (response'.code = 404 /\ response'.error = "NotFound")
                /\ response'.code \in {400, 404} => transactions' = transactions
                /\ (good /\ known) =>
                        transactions' =
                            [transactions EXCEPT ![id].status = response'.status[1]]]_vars

\* An updateOrderStatus was answered 200 and the Transaction is rejected,
\* with the stock of its Product still the newStock it recorded.
C23_Witness ==
    /\ response.op = "updateOrderStatus"
    /\ response.code = 200
    /\ transactions[response.id[1]].status = "rejected"
    /\ products[transactions[response.id[1]].product].stock
            = transactions[response.id[1]].newStock
    /\ transactions[response.id[1]].newStock # transactions[response.id[1]].previousStock

\* A generateReport request of one type is answered.
Reports(type) ==
    response'.op = "generateReport" /\ response' # response /\ response'.type = <<type>>

\* C24: the lowStock report lists exactly the Products with stock <=
\* lowStockThreshold, counts them as totalLowStockItems, and splits them
\* into criticalItems and warningItems that add up to that total; every
\* Product with stock = 0 is counted in criticalItems.
C24_LowStockSplit ==
    [][Reports("lowStock") =>
            /\ response'.code = 200
            /\ LET report == response'.data[1]
                   low == {p \in DOMAIN products :
                                products[p].stock <= products[p].lowStockThreshold}
                   empty == {p \in DOMAIN products : products[p].stock = 0}
               IN  /\ report.products = low
                   /\ report.totalLowStockItems = Cardinality(low)
                   /\ report.criticalItems + report.warningItems = report.totalLowStockItems
                   /\ report.criticalItems = Cardinality(empty)
                   /\ empty \subseteq report.products]_vars

\* A step of a generateReport request: its answer, or the first read of the
\* inventory report.
ReportActs ==
    \/ response'.op = "generateReport" /\ response' # response
    \/ \E r \in Reqs : reqs[r].pc = "idle" /\ reqs'[r].pc = "report"

\* No step of generateReport writes a collection.
ReportReadsOnly ==
    ReportActs =>
        /\ products' = products
        /\ transactions' = transactions
        /\ audits' = audits
        /\ notifications' = notifications
        /\ users' = users

\* C25: generateReport writes nothing, answers 200 with the report of the
\* type asked for when the type is inventory (also the default),
\* transactions or lowStock, and answers 400 (validation) to any other type.
C25_ReportPureRead ==
    [][/\ ReportReadsOnly
       /\ (response'.op = "generateReport" /\ response' # response) =>
            LET kind == IF response'.type = << >> THEN "inventory" ELSE response'.type[1]
                known == kind \in {"inventory", "transactions", "lowStock"}
            IN  /\ known <=> ( /\ response'.code = 200
                               /\ response'.data # << >>
                               /\ response'.data[1].type = kind )
                /\ ~known <=> (response'.code = 400 /\ response'.error = "ValidationError")]_vars

\* No two Products of the collection have the same SKU.
UniqueSkus(all) == \A p, q \in DOMAIN all : all[p].sku = all[q].sku => p = q

PassesSkuCheck(r) ==
    reqs[r].pc = "idle" /\ reqs'[r].pc = "insert"

\* C26: no two Products share a SKU.  A createProduct inserts only when no
\* Product has its SKU at the time of the insert, and fails without
\* creating anything otherwise: so does the one of two interleaved requests
\* that inserts second.  Each successful insert adds one Product, with the SKU
\* of the request, and no step changes the SKU of a Product.
C26_UniqueSku ==
    [][/\ UniqueSkus(products)
       /\ UniqueSkus(products')
       /\ \A p \in DOMAIN products \cap DOMAIN products' : products'[p].sku = products[p].sku
       /\ ~(DOMAIN products' \subseteq DOMAIN products) => \E r \in Reqs : Inserts(r)
       /\ \A r \in Reqs :
            /\ (reqs[r].pc = "insert" /\ reqs'[r].pc = "idle") =>
                LET taken == \E p \in DOMAIN products : products[p].sku = reqs[r].sku
                IN  /\ taken => (response'.code = 500 /\ products' = products)
                    /\ response'.code = 201 =>
                            \E p \in DOMAIN products' \ DOMAIN products :
                                /\ DOMAIN products' = DOMAIN products \cup {p}
                                /\ products'[p].sku = reqs[r].sku
            /\ PassesSkuCheck(r) => products' = products
       /\ (AnswersAtOnce("createProduct") /\ response'.code = 400) =>
            /\ products # << >>
            /\ products' = products]_vars

\* Of two createProduct requests for one SKU that both passed the check, the
\* second to insert was refused (500): one Product has the SKU, and a
\* Product of the other SKU exists.
C26_Witness ==
    /\ response.op = "createProduct"
    /\ response.code = 500
    /\ \A r \in Reqs : reqs[r].pc = "idle"
    /\ Cardinality({p \in DOMAIN products : products[p].sku = "X1"}) = 1
    /\ Cardinality({p \in DOMAIN products : products[p].sku = "X2"}) = 1

\* The Transactions of product p, in the order of the log.
TransactionsOf(p) == SelectSeq(transactions, LAMBDA t : t.product = p)

\* The quantities of the Transactions of one type of product p, added up.
Moved(p, type) ==
    LET own == TransactionsOf(p)
    IN  SumOf({i \in 1..Len(own) : own[i].type = type}, LAMBDA i : own[i].quantity)

\* C27: when the stock requests run one at a time and nothing else writes
\* the stock, then whenever no request is in flight the stock of every
\* Product is the stock it was created with plus the quantities of its in
\* Transactions minus those of its out Transactions, and every Transaction
\* of the Product but the first has for previousStock the newStock of the
\* one before it.
C27_LedgerAddsUp ==
    Quiet =>
        \A p \in DOMAIN products :
            LET own == TransactionsOf(p)
            IN  /\ products[p].stock = DefaultStock + Moved(p, "in") - Moved(p, "out")
                /\ \A i \in 2..Len(own) : own[i].previousStock = own[i - 1].newStock

\* C28: in every answer of createNewAudit the number of discrepancies that
\* the summary of Auditor.auditInventory reports equals totalDiscrepancies,
\* and totalDiscrepancies equals high + medium + low of the breakdown and
\* the discrepancies count stored in the Audit.
C28_EvaluatorsAgree ==
    [][\A r \in Reqs :
          (AnswersAudit(r) /\ response'.code = 200) =>
              LET breakdown == response'.data[1]
              IN  /\ response'.count = response'.totalDiscrepancies
                  /\ response'.totalDiscrepancies
                        = <<breakdown.high + breakdown.medium + breakdown.low>>
                  /\ <<audits'[response'.auditId[1]].discrepancies>>
                        = response'.totalDiscrepancies]_vars

\* C29: in every reachable state the Products with stock <= lowStockThreshold
\* (the clerk's list and stats) are exactly the Products whose stored status
\* is low-stock or out-of-stock (the product list and the admin dashboard).
C29_ViewsAgree == StockBasedView(products) = StatusBasedView(products)

====
